---------------------------- MODULE Spec2Model ----------------------------
(***************************************************************************)
(* A model of the tsc-wrapped compiler pipeline of the repository:         *)
(*   - the compiler-host chain of compiler_host.ts (MetadataWriterHost,    *)
(*     DecoratorDownlevelCompilerHost),                                    *)
(*   - the pipeline driver main() of main.ts.                              *)
(* File names are sequences of characters, so that the regular             *)
(* expressions of the source are suffix tests and replacements on them.    *)
(***************************************************************************)
EXTENDS Integers, Sequences, FiniteSets, TLC

(***************************************************************************)
(* Bounds of the model.                                                    *)
(***************************************************************************)
\* longest sourceFiles list handed to a writeFile call
MaxSourceFiles == 2

(***************************************************************************)
(* Strings as character sequences.                                         *)
(***************************************************************************)
EndsWith(s, suffix) ==
    /\ Len(s) >= Len(suffix)
    /\ SubSeq(s, Len(s) - Len(suffix) + 1, Len(s)) = suffix

\* s with its last n characters dropped
DropLast(s, n) == SubSeq(s, 1, Len(s) - n)

DOT_JS == <<".", "j", "s">>
DOT_TS == <<".", "t", "s">>
DOT_D_TS == <<".", "d", ".", "t", "s">>
DOT_MAP == <<".", "m", "a", "p">>
DOT_NGFACTORY == <<".", "n", "g", "f", "a", "c", "t", "o", "r", "y">>
DOT_NGSTYLE == <<".", "n", "g", "s", "t", "y", "l", "e">>
DOT_METADATA_JSON ==
    <<".", "m", "e", "t", "a", "d", "a", "t", "a", ".", "j", "s", "o", "n">>

\* /\.d\.ts$/
DTS(fileName) == EndsWith(fileName, DOT_D_TS)

\* /\.js$/
JS(fileName) == EndsWith(fileName, DOT_JS)

\* const IGNORED_FILES = /\.ngfactory\.js$|\.ngstyle\.js$/
IGNORED_FILES(fileName) ==
    \/ EndsWith(fileName, DOT_NGFACTORY \o DOT_JS)
    \/ EndsWith(fileName, DOT_NGSTYLE \o DOT_JS)

(***************************************************************************)
(* Source units.  A transformed unit points at the unit it was made from   *)
(* through its `original' field; an original unit has none.                *)
(***************************************************************************)
NoUnit == "undefined"

Units == {"sfA'", "sfB"}

\* the units a collector can be handed: those with no `original'
Roots == {"sfA", "sfB"}

Collectors == {"v3", "v1"}

original(unit) ==
    CASE unit = "sfA'" -> "sfA"
      [] OTHER -> NoUnit

\* while ((collectableFile as any).original) collectableFile = ....original
RECURSIVE collectableFile(_)
collectableFile(sourceFile) ==
    IF original(sourceFile) = NoUnit
    THEN sourceFile
    ELSE collectableFile(original(sourceFile))

\* The optional sourceFiles argument of a WriteFileCallback.
NoSourceFiles == [defined |-> FALSE, files |-> <<>>]

SourceFiles(files) == [defined |-> TRUE, files |-> files]

RECURSIVE SeqsUpTo(_, _)
SeqsUpTo(S, n) ==
    IF n = 0
    THEN {<<>>}
    ELSE LET shorter == SeqsUpTo(S, n - 1)
         IN shorter \cup {Append(q, x) : q \in shorter, x \in S}

SourceFileArgs ==
    {NoSourceFiles} \cup {SourceFiles(q) : q \in SeqsUpTo(Units, MaxSourceFiles)}

(***************************************************************************)
(* The metadata collector.  getMetadata returns a document for the unit,   *)
(* or null when the unit exports nothing annotated.  ann is the set of     *)
(* <<collector, unit>> pairs for which the collector finds metadata.  null *)
(* is the empty sequence.                                                  *)
(***************************************************************************)
Null == <<>>

MetadataCollector_getMetadata(collector, unit, ann) ==
    IF <<collector, unit>> \in ann THEN <<"{", collector, unit, "}">> ELSE Null

\* [metadata, metadata1].filter(e => !!e)
RECURSIVE filterNonNull(_)
filterNonNull(docs) ==
    IF docs = <<>>
    THEN <<>>
    ELSE IF Head(docs) = Null
         THEN filterNonNull(Tail(docs))
         ELSE <<Head(docs)>> \o filterNonNull(Tail(docs))

\* JSON.stringify of an array of documents: "[" d1 "," d2 ... "]"
RECURSIVE joinDocs(_)
joinDocs(docs) ==
    IF docs = <<>>
    THEN <<>>
    ELSE IF Len(docs) = 1
         THEN Head(docs)
         ELSE Head(docs) \o <<",">> \o joinDocs(Tail(docs))

JSON_stringify(docs) == <<"[">> \o joinDocs(docs) \o <<"]">>

(***************************************************************************)
(* MetadataWriterHost.  The result of a call lists what the call did:      *)
(*   forwarded  - the writeFile calls made on the inner host, in order     *)
(*   collected  - the documents the collectors returned, in call order     *)
(*   sidecars   - the files written with writeFileSync                     *)
(*   error      - the exception the call ended with, "none" if it returned *)
(***************************************************************************)
NoEffect == [forwarded |-> <<>>, collected |-> <<>>, sidecars |-> <<>>,
             error |-> "none"]

Throw(e) == [NoEffect EXCEPT !.error = e]

WriteCall(fileName, data, sourceFiles) ==
    [fileName |-> fileName, data |-> data, sourceFiles |-> sourceFiles]

\* writeMetadata without the `if (metadatas.length)' test
writeMetadata_alwaysWrites(emitFilePath, sourceFile, ann) ==
    IF ~JS(emitFilePath)
    THEN NoEffect
    ELSE IF sourceFile = NoUnit
         THEN Throw("TypeError")
         ELSE LET unit == collectableFile(sourceFile)
                  metadata == MetadataCollector_getMetadata("v3", unit, ann)
                  metadata1 == MetadataCollector_getMetadata("v1", unit, ann)
                  metadatas == filterNonNull(<<metadata, metadata1>>)
                  path == DropLast(emitFilePath, Len(DOT_JS)) \o DOT_METADATA_JSON
              IN [NoEffect EXCEPT
                    !.collected = <<metadata, metadata1>>,
                    !.sidecars = <<[fileName |-> path,
                                    data |-> JSON_stringify(metadatas)]>>]

\* private writeMetadata(emitFilePath, sourceFile)
MetadataWriterHost_writeMetadata(emitFilePath, sourceFile, ann) ==
    IF ~JS(emitFilePath)
    THEN NoEffect
    ELSE IF sourceFile = NoUnit
         THEN \* reading `.original' of undefined
              Throw("TypeError")
         ELSE LET unit == collectableFile(sourceFile)
                  metadata == MetadataCollector_getMetadata("v3", unit, ann)
                  metadata1 == MetadataCollector_getMetadata("v1", unit, ann)
                  metadatas == filterNonNull(<<metadata, metadata1>>)
                  path == DropLast(emitFilePath, Len(DOT_JS)) \o DOT_METADATA_JSON
              IN [NoEffect EXCEPT
                    !.collected = <<metadata, metadata1>>,
                    !.sidecars = IF Len(metadatas) # 0
                                 THEN <<[fileName |-> path,
                                         data |-> JSON_stringify(metadatas)]>>
                                 ELSE <<>>]

\* writeFile without the early return of the declaration-file branch
writeFile_noEarlyReturn(fileName, data, sourceFiles, ann) ==
    LET primary == IF DTS(fileName)
                   THEN <<WriteCall(fileName, data, sourceFiles)>>
                   ELSE <<>>
        rest == IF IGNORED_FILES(fileName)
                THEN NoEffect
                ELSE IF ~sourceFiles.defined
                THEN Throw("Metadata emit requires the sourceFiles")
                ELSE IF Len(sourceFiles.files) > 1
                THEN Throw("Bundled emit with --out is not supported")
                ELSE MetadataWriterHost_writeMetadata(
                         fileName,
                         IF Len(sourceFiles.files) = 0
                         THEN NoUnit ELSE sourceFiles.files[1],
                         ann)
    IN [rest EXCEPT !.forwarded = primary]

\* writeFile: ts.WriteFileCallback of MetadataWriterHost
MetadataWriterHost_writeFile(fileName, data, sourceFiles, ann) ==
    IF DTS(fileName)
    THEN [NoEffect EXCEPT !.forwarded = <<WriteCall(fileName, data, sourceFiles)>>]
    ELSE IF IGNORED_FILES(fileName)
    THEN NoEffect
    ELSE IF ~sourceFiles.defined
    THEN Throw("Metadata emit requires the sourceFiles")
    ELSE IF Len(sourceFiles.files) > 1
    THEN Throw("Bundled emit with --out is not supported")
    ELSE MetadataWriterHost_writeMetadata(
             fileName,
             IF Len(sourceFiles.files) = 0 THEN NoUnit ELSE sourceFiles.files[1],
             ann)

(***************************************************************************)
(* The disk: a set of files, each a name with its text.  A write replaces  *)
(* what the name held.                                                     *)
(***************************************************************************)
writeToDisk(d, fileName, data) ==
    {f \in d : f.fileName # fileName} \cup {[fileName |-> fileName, data |-> data]}

RECURSIVE writeAll(_, _)
writeAll(d, writes) ==
    IF writes = <<>>
    THEN d
    ELSE writeAll(writeToDisk(d, Head(writes).fileName, Head(writes).data),
                  Tail(writes))

onDisk(d, fileName) == \E f \in d : f.fileName = fileName


(***************************************************************************)
(* State.                                                                  *)
(***************************************************************************)
VARIABLES
    annotated,   \* the <<collector, unit>> pairs with metadata to collect
    disk,        \* the files written so far
    lastWrite,   \* the latest writeFile call on a MetadataWriterHost
    pc,          \* where main() stands
    opts,        \* the options of the run of main()
    programs,    \* the Programs created by main(), in creation order
    locals,      \* programWithCodegen, programForJsEmit and the emit queue
    steps,       \* the steps of main() taken so far, in order
    reported,    \* the checks whose diagnostics held an error
    promise,     \* the promise main() returned
    convHost,    \* a DecoratorDownlevelCompilerHost and what it reads from
    lastGet,     \* the latest getSourceFile call on it
    tsickleHost, \* a TsickleCompilerHost and its latest getSourceFile call
    delegating,  \* a DelegatingHost, its inner host and the latest call on it
    generator,   \* a CodeGenerator and the run of its codegen()
    emitPathCall, \* the options and argument of a calculateEmitPath call, its result
    patchCall,   \* a generated source and what the patch before the write made of it
    namerCall,   \* the arguments of a pathToGoogModuleName call and its result
    flatModule,  \* the part of main() that builds the flat module index
    loaderCall,  \* a host, a get(url) call on the default resource loader, its outcome
    factory,     \* an AnimationRendererFactory, its microtasks and its listeners
    renderer     \* a renderer of the factory, its engine and delegate, and a player

hostVars == <<annotated, disk, lastWrite>>
mainVars == <<pc, opts, programs, locals, steps, reported, promise>>
convVars == <<convHost, lastGet, tsickleHost>>
laterVars == <<namerCall, flatModule, loaderCall, factory, renderer>>
restVars == <<delegating, generator, emitPathCall, patchCall, laterVars>>
vars == <<annotated, disk, lastWrite, pc, opts, programs, locals, steps, reported,
          promise, convHost, lastGet, tsickleHost, delegating, generator,
          emitPathCall, patchCall, namerCall, flatModule, loaderCall, factory, renderer>>

\* the variables no step of main() and no write on a host touches
notMain == <<convVars, restVars>>
\* the variables no call on the annotation conversion host touches
notConv == <<hostVars, mainVars, restVars>>

NoLocals == [programWithCodegen |-> 0, programForJsEmit |-> 0,
             queue |-> <<>>, failedAt |-> "none"]

NoGet == [called |-> FALSE, fileName |-> <<>>, threw |-> FALSE, text |-> <<>>,
          convertThrew |-> FALSE]

NoCall == [called |-> FALSE,
           call |-> WriteCall(<<>>, <<>>, NoSourceFiles),
           result |-> NoEffect]

HostInit ==
    /\ annotated \in SUBSET (Collectors \X Roots)
    /\ disk = {}
    /\ lastWrite = NoCall

\* The state of main() while no run of main() is modelled.
MainIdle ==
    /\ pc = "idle"
    /\ opts = [skipMetadataEmit |-> FALSE, annotationsAs |-> "decorators",
               annotateForClosureCompiler |-> FALSE, skipTemplateCodegen |-> FALSE,
               codegen |-> FALSE, declaration |-> FALSE, outFile |-> FALSE]
    /\ programs = <<>>
    /\ locals = NoLocals
    /\ steps = <<>>
    /\ reported = {}
    /\ promise = "none"

\* The annotation conversion host while none is modelled.
ConvIdle ==
    /\ convHost = [googleClosureOutput |-> FALSE, program |-> <<>>,
                   substituteProgram |-> <<>>, files |-> <<>>,
                   diagnostics |-> <<>>, produced |-> <<>>, calls |-> 0]
    /\ lastGet = NoGet
    /\ tsickleHost = [oldProgram |-> <<>>, diagnostics |-> <<>>,
                      produced |-> <<>>, calls |-> 0, last |-> NoGet]

NoOperation == [called |-> FALSE, op |-> "none", args |-> <<>>,
                invoked |-> <<>>, result |-> <<>>, threw |-> FALSE]

\* The DelegatingHost while none is modelled.
DelegatingIdle == delegating = [defined |-> {}, last |-> NoOperation]

NoGeneration == [started |-> FALSE, program |-> <<>>, metadata |-> <<>>,
                 log |-> <<>>, tasks |-> <<>>, logged |-> <<>>,
                 written |-> <<>>, promise |-> "none"]

\* The CodeGenerator while none is modelled.
GeneratorIdle == generator = NoGeneration

\* calculateEmitPath while no call is modelled.
EmitPathIdle ==
    emitPathCall = [called |-> FALSE, basePath |-> <<>>, rootDirs |-> <<>>,
                    genDir |-> <<>>, filePath |-> <<>>, result |-> <<>>]

\* The patch of a generated source while none is modelled.
PatchIdle == patchCall = [called |-> FALSE, source |-> <<>>, result |-> <<>>]

NamerIdle ==
    namerCall = [called |-> FALSE, host |-> "none", googModuleProjectName |-> <<>>,
                 context |-> <<>>, importPath |-> <<>>, result |-> <<>>]
NoEvent == [hasData |-> FALSE, _data |-> 0]
FlatModuleIdle ==
    flatModule = [pc |-> "none", flatModuleOutFile |-> <<>>, skipMetadataEmit |-> FALSE,
                  files |-> <<>>, fileNames |-> <<>>, host |-> <<>>, bundled |-> <<>>,
                  reported |-> FALSE, programs |-> <<>>, typeChecked |-> {},
                  emitted |-> {}, promise |-> "none"]
LoaderIdle ==
    loaderCall = [called |-> FALSE, files |-> <<>>, url |-> 0, outcome |-> "none",
                  value |-> "none", error |-> <<>>, reads |-> <<>>]
\* an AnimationRendererFactory as its constructor leaves it, with what the
\* model keeps beside its fields: the microtasks scheduled, the callbacks
\* passed and invoked, the calls and the events of the latest step, the
\* renderers created and the namespaces registered with the engine
NewFactory ==
    [_currentId |-> 0, _microtaskId |-> 1, _animationCallbacksBuffer |-> <<>>,
     _rendererCache |-> {}, countTasks |-> 0, flushes |-> 0, listeners |-> <<>>,
     passed |-> <<>>, invoked |-> <<>>, step |-> <<>>, fired |-> <<>>,
     renderers |-> <<>>, registered |-> <<>>, triggers |-> <<>>, calls |-> 0,
     returned |-> [base |-> FALSE, delegate |-> "none", renderer |-> 0]]
FactoryIdle == factory = NewFactory

\* the nodes a renderer is asked to insert and to remove
Elements == {"e1", "e2"}

NoRendererCall ==
    [op |-> "none", element |-> "none", name |-> <<>>, removed |-> <<>>,
     engine |-> <<>>, delegate |-> <<>>]

\* a renderer, the nodes its delegate holds under a parent, the removals its
\* engine was told of, and a player that was never constructed
NewRenderer ==
    [self |-> [kind |-> "none", namespaceId |-> <<>>, delegate |-> "none"],
     attached |-> {}, pending |-> <<>>,
     inserts |-> [e \in Elements |-> 0], removes |-> [e \in Elements |-> 0],
     calls |-> 0, last |-> NoRendererCall,
     player |-> [id |-> "none", _started |-> FALSE, log |-> <<>>]]

RendererIdle == renderer = NewRenderer
LaterIdle == NamerIdle /\ FlatModuleIdle /\ LoaderIdle /\ FactoryIdle /\ RendererIdle
RestIdle == DelegatingIdle /\ GeneratorIdle /\ EmitPathIdle /\ PatchIdle /\ LaterIdle

(***************************************************************************)
(* The Metadata-Writing Host on its own: writeFile is called with any file *)
(* name, data and sourceFiles; the inner host writes what it is handed.    *)
(***************************************************************************)
A_JS == <<"a">> \o DOT_JS
A_D_TS == <<"a">> \o DOT_D_TS
A_JS_MAP == A_JS \o DOT_MAP
A_NGFACTORY_JS == <<"a">> \o DOT_NGFACTORY \o DOT_JS
A_NGSTYLE_JS == <<"a">> \o DOT_NGSTYLE \o DOT_JS

WrittenNames == {A_JS, A_D_TS, A_JS_MAP, A_NGFACTORY_JS, A_NGSTYLE_JS}

Data == {<<"d1">>, <<"d2">>}

\* One writeFile call on the MetadataWriterHost and its effect on the disk.
hostWriteFile(fileName, data, sourceFiles) ==
    LET r == MetadataWriterHost_writeFile(fileName, data, sourceFiles, annotated)
    IN /\ lastWrite' = [called |-> TRUE,
                        call |-> WriteCall(fileName, data, sourceFiles),
                        result |-> r]
       /\ disk' = writeAll(writeAll(disk, r.forwarded), r.sidecars)

WriteFile ==
    \E fileName \in WrittenNames, data \in Data, sourceFiles \in SourceFileArgs :
        /\ hostWriteFile(fileName, data, sourceFiles)
        /\ UNCHANGED <<notMain, annotated, mainVars>>

InitHost == HostInit /\ MainIdle /\ ConvIdle /\ RestIdle

NextHost == WriteFile

SpecHost == InitHost /\ [][NextHost]_vars


(***************************************************************************)
(* main() of main.ts.  The run is cut at its calls: reading the            *)
(* configuration, creating a Program, a check of diagnostics, the codegen  *)
(* extension and its writes, each writeFile of an emit.                    *)
(***************************************************************************)
A_TS == <<"a">> \o DOT_TS
B_TS == <<"b">> \o DOT_TS
A_NGFACTORY_TS == <<"a">> \o DOT_NGFACTORY \o DOT_TS
OUT_JS == <<"o", "u", "t">> \o DOT_JS
OUT_D_TS == <<"o", "u", "t">> \o DOT_D_TS

Options ==
    [skipMetadataEmit : BOOLEAN,
     annotationsAs : {"decorators", "static fields"},
     annotateForClosureCompiler : BOOLEAN,
     skipTemplateCodegen : BOOLEAN,
     codegen : BOOLEAN,            \* a codegen extension is passed to main
     declaration : BOOLEAN,        \* parsed.options.declaration
     outFile : BOOLEAN]            \* parsed.options.out / outFile is set

\* if (ngOptions.skipTemplateCodegen || !codegen) codegen = () => resolve(null)
nullCodegen(o) == o.skipTemplateCodegen \/ ~o.codegen

\* the unit the Program holds for a source file
unitOf(fileName) ==
    CASE fileName = A_TS -> "sfA'"
      [] fileName = B_TS -> "sfB"
      [] OTHER -> "sfF"

\* the source files of a Program: parsed.fileNames and the generated unit
\* once codegen has written it
sourcesOf(d) ==
    IF onDisk(d, A_NGFACTORY_TS) THEN <<A_TS, A_NGFACTORY_TS, B_TS>> ELSE <<A_TS, B_TS>>

RECURSIVE unitsOf(_)
unitsOf(fileNames) ==
    IF fileNames = <<>>
    THEN <<>>
    ELSE <<unitOf(Head(fileNames))>> \o unitsOf(Tail(fileNames))

\* the writeFile calls of one program.emit(): per source file its .js and,
\* with `declaration', its .d.ts; with outFile one bundle of all the sources
RECURSIVE emitEach(_, _)
emitEach(fileNames, o) ==
    IF fileNames = <<>>
    THEN <<>>
    ELSE LET f == Head(fileNames)
             stem == DropLast(f, Len(DOT_TS))
             units == SourceFiles(<<unitOf(f)>>)
         IN <<WriteCall(stem \o DOT_JS, <<"js">>, units)>>
            \o (IF o.declaration
                THEN <<WriteCall(stem \o DOT_D_TS, <<"dts">>, units)>>
                ELSE <<>>)
            \o emitEach(Tail(fileNames), o)

tsc_emit(fileNames, o) ==
    IF o.outFile
    THEN <<WriteCall(OUT_JS, <<"js">>, SourceFiles(unitsOf(fileNames)))>>
         \o (IF o.declaration
             THEN <<WriteCall(OUT_D_TS, <<"dts">>, SourceFiles(unitsOf(fileNames)))>>
             ELSE <<>>)
    ELSE emitEach(fileNames, o)

\* check(diagnostics): throws when the list holds an error
check(errors) == IF errors THEN "throw" ELSE "return"

\* const createProgram = (host, oldProgram?) => ts.createProgram(...)
\* held is the Program the tsickle host was last reconfigured for.
createProgram(host, oldProgram, held) ==
    [host |-> host, oldProgram |-> oldProgram, held |-> held]

\* the step that comes after a step that returned normally (main.ts 155-197)
nextStep_noTypeCheck(step, o) ==
    CASE step = "codegen" -> "createProgramWithCodegen"
      [] step = "createProgramWithCodegen" -> "emitJs"
      [] step = "typeCheck" -> "emitJs"
      [] step = "downlevel" -> "emitJs"
      [] step = "closure" -> "emitJs"
      [] step = "emitJs" -> "emitDts"
      [] OTHER -> "resolved"

\* the same with the JS emit moved before the two tsickle passes
nextStep_emitJsFirst(step, o) ==
    LET passes == IF o.annotateForClosureCompiler THEN "closure" ELSE "emitDts"
    IN CASE step = "codegen" -> "createProgramWithCodegen"
         [] step = "createProgramWithCodegen" -> "typeCheck"
         [] step = "typeCheck" -> "emitJs"
         [] step = "emitJs" ->
               IF o.annotationsAs # "decorators" THEN "downlevel" ELSE passes
         [] step = "downlevel" -> passes
         [] step = "closure" -> "emitDts"
         [] OTHER -> "resolved"

nextStep(step, o) ==
    CASE step = "codegen" -> "createProgramWithCodegen"
      [] step = "createProgramWithCodegen" -> "typeCheck"
      [] step = "typeCheck" ->
            IF o.annotationsAs # "decorators" THEN "downlevel"
            ELSE IF o.annotateForClosureCompiler THEN "closure" ELSE "emitJs"
      [] step = "downlevel" ->
            IF o.annotateForClosureCompiler THEN "closure" ELSE "emitJs"
      [] step = "closure" -> "emitJs"
      [] step = "emitJs" -> "emitDts"
      [] OTHER -> "resolved"

\* a main without the try and catch around its body: what is raised before
\* codegen returned its promise leaves main as an exception
reject_uncaught(at) ==
    /\ pc' = IF promise = "none" THEN "thrown" ELSE "rejected"
    /\ promise' = IF promise = "none" THEN "none" ELSE "rejected"
    /\ locals' = [locals EXCEPT !.failedAt = at, !.queue = <<>>]

\* an exception: caught by main's try, or thrown in the continuation of
\* codegen; either way the promise main returned is rejected
reject(at) ==
    /\ pc' = "rejected"
    /\ promise' = "rejected"
    /\ locals' = [locals EXCEPT !.failedAt = at, !.queue = <<>>]

\* a step that returned normally
done(step) ==
    /\ pc' = nextStep(step, opts)
    /\ steps' = Append(steps, step)
    /\ promise' = IF nextStep(step, opts) = "resolved" THEN "resolved" ELSE promise

\* tsc.readConfiguration(project, basePath, options)
ReadConfiguration ==
    /\ pc = "main"
    /\ \E ok \in BOOLEAN :
         IF ok
         THEN pc' = "createProgram" /\ UNCHANGED <<locals, promise>>
         ELSE reject("readConfiguration")
    /\ UNCHANGED <<notMain, hostVars, opts, programs, steps, reported>>

\* the flat module index (main.ts 61-90), the hosts, and
\* const program = createProgram(tsickleCompilerHost); either may raise
CreateProgram ==
    /\ pc = "createProgram"
    /\ \E raised \in {"none", "flatModuleIndex", "createProgram"} :
         IF raised = "none"
         THEN /\ programs' = <<createProgram("TsickleCompilerHost", 0, 0)>>
              /\ pc' = "optionsDiagnostics"
              /\ UNCHANGED <<locals, promise>>
         ELSE reject(raised) /\ UNCHANGED programs
    /\ UNCHANGED <<notMain, hostVars, opts, steps, reported>>

\* const errors = program.getOptionsDiagnostics(); check(errors)
CheckOptionsDiagnostics ==
    /\ pc = "optionsDiagnostics"
    /\ \E errors \in BOOLEAN :
         IF check(errors) = "throw"
         THEN reject("optionsDiagnostics")
              /\ reported' = reported \cup {"optionsDiagnostics"}
         ELSE pc' = "codegen" /\ UNCHANGED <<locals, promise, reported>>
    /\ UNCHANGED <<notMain, hostVars, opts, programs, steps>>

\* return codegen(ngOptions, cliOptions, program, host).then(...)
CallCodegen ==
    /\ pc = "codegen"
    /\ \E throws \in BOOLEAN :
         IF throws /\ ~nullCodegen(opts)
         THEN reject("codegen")
         ELSE pc' = "codegenRunning" /\ promise' = "pending" /\ UNCHANGED locals
    /\ UNCHANGED <<notMain, hostVars, opts, programs, steps, reported>>

\* the codegen extension writes a generated unit through `host'
CodegenWriteFile ==
    /\ pc = "codegenRunning"
    /\ ~nullCodegen(opts)
    /\ ~onDisk(disk, A_NGFACTORY_TS)
    /\ disk' = writeToDisk(disk, A_NGFACTORY_TS, <<"PREAMBLE", "source">>)
    /\ UNCHANGED <<notMain, annotated, lastWrite, mainVars>>

\* the promise of the codegen extension settles
CodegenSettles ==
    /\ pc = "codegenRunning"
    /\ \E rejects \in BOOLEAN :
         IF rejects /\ ~nullCodegen(opts)
         THEN reject("codegen") /\ UNCHANGED steps
         ELSE done("codegen") /\ UNCHANGED locals
    /\ UNCHANGED <<notMain, hostVars, opts, programs, reported>>

\* let programWithCodegen = createProgram(definitionsHost, program)
CreateProgramWithCodegen ==
    /\ pc = "createProgramWithCodegen"
    /\ LET definitionsHost == IF ~opts.skipMetadataEmit
                              THEN "MetadataWriterHost"
                              ELSE "TsickleCompilerHost"
       IN programs' = Append(programs, createProgram(definitionsHost, 1, 0))
    /\ locals' = [locals EXCEPT !.programWithCodegen = Len(programs) + 1]
    /\ done("createProgramWithCodegen")
    /\ UNCHANGED <<notMain, hostVars, opts, reported>>

\* tsc.typeCheck(host, programWithCodegen); programForJsEmit = programWithCodegen
TypeCheck ==
    /\ pc = "typeCheck"
    /\ \E errors \in BOOLEAN :
         IF check(errors) = "throw"
         THEN reject("typeCheck") /\ reported' = reported \cup {"typeCheck"}
              /\ UNCHANGED steps
         ELSE /\ done("typeCheck")
              /\ locals' = [locals EXCEPT
                              !.programForJsEmit = locals.programWithCodegen]
              /\ UNCHANGED reported
    /\ UNCHANGED <<notMain, hostVars, opts, programs>>

\* one tsickle pass: reconfigureForRun(programForJsEmit, pass);
\* programForJsEmit = createProgram(tsickleCompilerHost); check(diagnostics)
tsicklePass(step, seed, checked) ==
    /\ pc = step
    /\ programs' = Append(programs,
                          createProgram("TsickleCompilerHost", seed,
                                        locals.programForJsEmit))
    /\ \E errors \in BOOLEAN :
         IF errors /\ checked /\ check(errors) = "throw"
         THEN reject(step) /\ reported' = reported \cup {step}
              /\ UNCHANGED steps
         ELSE /\ done(step)
              /\ locals' = [locals EXCEPT !.programForJsEmit = Len(programs) + 1]
              /\ reported' = IF errors THEN reported \cup {step} ELSE reported
    /\ UNCHANGED <<notMain, hostVars, opts>>

\* the downlevel pass without check(tsickleCompilerHost.diagnostics)
Downlevel_noCheck == tsicklePass("downlevel", 0, FALSE)

\* the downlevel pass with programForJsEmit handed over as the old program
Downlevel_seeded == tsicklePass("downlevel", locals.programForJsEmit, TRUE)

\* if (ngOptions.annotationsAs !== 'decorators') { ... DECORATOR_DOWNLEVEL ... }
Downlevel == tsicklePass("downlevel", 0, TRUE)

\* if (ngOptions.annotateForClosureCompiler) { ... CLOSURIZE ... }
Closurize == tsicklePass("closure", 0, TRUE)

\* tsc.emit(programForJsEmit) and tsc.emit(programWithCodegen) begin: the
\* Program is about to hand its outputs to its host
BeginEmit ==
    /\ pc \in {"emitJs", "emitDts"}
    /\ locals' = [locals EXCEPT !.queue = tsc_emit(sourcesOf(disk), opts)]
    /\ steps' = Append(steps, pc)
    /\ pc' = IF pc = "emitJs" THEN "emittingJs" ELSE "emittingDts"
    /\ UNCHANGED <<notMain, hostVars, opts, programs, reported, promise>>

\* the Program whose emit is running
emitting ==
    IF pc = "emittingJs"
    THEN programs[locals.programForJsEmit]
    ELSE programs[locals.programWithCodegen]

\* one writeFile call of the running emit, on the host of its Program
EmitWriteFile ==
    /\ pc \in {"emittingJs", "emittingDts"}
    /\ locals.queue # <<>>
    /\ LET w == Head(locals.queue)
       IN IF emitting.host = "MetadataWriterHost"
          THEN /\ hostWriteFile(w.fileName, w.data, w.sourceFiles)
               /\ IF lastWrite'.result.error # "none"
                  THEN reject(IF pc = "emittingJs" THEN "emitJs" ELSE "emitDts")
                  ELSE /\ locals' = [locals EXCEPT !.queue = Tail(locals.queue)]
                       /\ UNCHANGED <<pc, promise>>
          ELSE /\ disk' = writeToDisk(disk, w.fileName, w.data)
               /\ locals' = [locals EXCEPT !.queue = Tail(locals.queue)]
               /\ UNCHANGED <<lastWrite, pc, promise>>
    /\ UNCHANGED <<notMain, annotated, opts, programs, steps, reported>>

\* the running emit returns
EndEmit ==
    /\ pc \in {"emittingJs", "emittingDts"}
    /\ locals.queue = <<>>
    /\ pc' = nextStep(IF pc = "emittingJs" THEN "emitJs" ELSE "emitDts", opts)
    /\ promise' = IF pc' = "resolved" THEN "resolved" ELSE promise
    /\ UNCHANGED <<notMain, hostVars, opts, programs, locals, steps, reported>>

InitMain ==
    /\ HostInit
    /\ pc = "main"
    /\ opts \in Options
    /\ programs = <<>>
    /\ locals = NoLocals
    /\ steps = <<>>
    /\ reported = {}
    /\ promise = "none"
    /\ ConvIdle
    /\ RestIdle

NextMain ==
    \/ ReadConfiguration
    \/ CreateProgram
    \/ CheckOptionsDiagnostics
    \/ CallCodegen
    \/ CodegenWriteFile
    \/ CodegenSettles
    \/ CreateProgramWithCodegen
    \/ TypeCheck
    \/ Downlevel
    \/ Closurize
    \/ BeginEmit
    \/ EmitWriteFile
    \/ EndEmit

SpecMain == InitMain /\ [][NextMain]_vars

(***************************************************************************)
(* Claims about the Metadata-Writing Host (SpecHost).                      *)
(***************************************************************************)
lastName == lastWrite.call.fileName
lastFiles == lastWrite.call.sourceFiles
lastResult == lastWrite.result

\* the file a call's metadata goes to: the emit path with .js replaced
sidecarPath(fileName) == DropLast(fileName, 3) \o DOT_METADATA_JSON

\* C5: every writeFile call on the Metadata-Writing Host for a file that is
\* not a declaration file forwards the write to the inner host exactly once,
\* with the file name, data and source units it was given.
C5_CompiledOutputForwardedOnce ==
    (lastWrite.called /\ ~DTS(lastName))
        => lastResult.forwarded = <<lastWrite.call>>

\* C7: a writeFile call for a compiled-output, non-excluded file with no
\* source unit (list absent or empty) or with more than one source unit ends
\* with an error and writes no metadata sidecar.
C7_NotOneSourceUnitIsAnError ==
    ( /\ lastWrite.called
      /\ ~DTS(lastName)
      /\ ~IGNORED_FILES(lastName)
      /\ (~lastFiles.defined \/ Len(lastFiles.files) # 1) )
        => (lastResult.error # "none" /\ lastResult.sidecars = <<>>)

\* C8: a writeFile call for a declaration (.d.ts) file forwards exactly one
\* write to the inner host, with the arguments unchanged, invokes no
\* collector, writes no sidecar and returns normally, whatever source units
\* it is given (none, one or several); the file is on disk afterwards.
C8_DeclarationWriteShortCircuits ==
    (lastWrite.called /\ DTS(lastName)) =>
        /\ lastResult.forwarded = <<lastWrite.call>>
        /\ lastResult.collected = <<>>
        /\ lastResult.sidecars = <<>>
        /\ lastResult.error = "none"
        /\ [fileName |-> lastName, data |-> lastWrite.call.data] \in disk

C8_Witness ==
    /\ lastWrite.called
    /\ DTS(lastName)
    /\ lastFiles.defined
    /\ Len(lastFiles.files) = 2
    /\ Len(lastResult.forwarded) = 1

\* the original unit behind the one source unit of the latest call
lastRoot == IF lastFiles.files[1] = "sfA'" THEN "sfA" ELSE lastFiles.files[1]

\* the documents the two collectors have for a unit, as they are serialised
expectedMetadata(unit) ==
    LET d3 == <<"{", "v3", unit, "}">>
        d1 == <<"{", "v1", unit, "}">>
    IN CASE <<"v3", unit>> \in annotated /\ <<"v1", unit>> \in annotated
              -> <<"[">> \o d3 \o <<",">> \o d1 \o <<"]">>
         [] <<"v3", unit>> \in annotated /\ <<"v1", unit>> \notin annotated
              -> <<"[">> \o d3 \o <<"]">>
         [] <<"v3", unit>> \notin annotated /\ <<"v1", unit>> \in annotated
              -> <<"[">> \o d1 \o <<"]">>
         [] OTHER -> <<>>

\* C9: for an emitted .js file with exactly one source unit, a sidecar is
\* written at the emit path with .js replaced by .metadata.json if and only if
\* some collector returns a non-null document; its text is one JSON array of
\* exactly the non-null documents (never an empty array); when every collector
\* returns null, or none is invoked, nothing is written and no error is raised.
C9_SidecarIffMetadataCollected ==
    ( /\ lastWrite.called
      /\ JS(lastName)
      /\ lastFiles.defined
      /\ Len(lastFiles.files) = 1 ) =>
        LET returned == {i \in 1..Len(lastResult.collected) :
                            lastResult.collected[i] # Null}
            sidecar == [fileName |-> sidecarPath(lastName),
                        data |-> expectedMetadata(lastRoot)]
        IN /\ lastResult.error = "none"
           /\ IF returned # {}
              THEN /\ lastResult.sidecars = <<sidecar>>
                   /\ sidecar \in disk
                   /\ sidecar.data \notin {<<>>, <<"[", "]">>}
              ELSE lastResult.sidecars = <<>>
           /\ ~IGNORED_FILES(lastName) =>
                (returned # {} <=> expectedMetadata(lastRoot) # <<>>)
           /\ IGNORED_FILES(lastName) => lastResult.collected = <<>>

C9_Witness ==
    /\ lastWrite.called
    /\ lastName = A_JS
    /\ lastFiles = SourceFiles(<<"sfA'">>)
    /\ Len(lastResult.sidecars) = 1
    /\ {<<"v3", "sfA">>, <<"v1", "sfA">>} \subseteq annotated


(***************************************************************************)
(* Claims about main() (SpecMain).                                         *)
(***************************************************************************)
taken(step) == \E i \in 1..Len(steps) : steps[i] = step

\* the place of a step in the order the pipeline is to follow
rank(step) ==
    CASE step = "codegen" -> 1
      [] step = "createProgramWithCodegen" -> 2
      [] step = "typeCheck" -> 3
      [] step = "downlevel" -> 4
      [] step = "closure" -> 5
      [] step = "emitJs" -> 6
      [] step = "emitDts" -> 7
      [] OTHER -> 0

\* C1: in every run of main the steps are taken in the order codegen, new
\* Program, type check, downlevel pass (only if enabled), closure pass (only
\* if enabled), JS emit, declaration/metadata emit: none is taken twice or out
\* of order, an optional pass is taken exactly when it is enabled, and no emit
\* begins before the type check has returned.
C1_StepsInPipelineOrder ==
    /\ \A i, j \in 1..Len(steps) :
          i < j => (rank(steps[i]) # 0 /\ rank(steps[i]) < rank(steps[j]))
    /\ taken("downlevel") => opts.annotationsAs # "decorators"
    /\ taken("closure") => opts.annotateForClosureCompiler
    /\ taken("emitJs") =>
          /\ taken("codegen")
          /\ taken("createProgramWithCodegen")
          /\ taken("typeCheck")
          /\ (opts.annotationsAs # "decorators" => taken("downlevel"))
          /\ (opts.annotateForClosureCompiler => taken("closure"))
    /\ taken("emitDts") => taken("emitJs")
    /\ promise = "resolved" => taken("emitDts")
    /\ (\E f \in disk : JS(f.fileName) \/ DTS(f.fileName)) => taken("typeCheck")

C1_Witness ==
    /\ promise = "resolved"
    /\ steps = <<"codegen", "createProgramWithCodegen", "typeCheck", "downlevel",
                 "closure", "emitJs", "emitDts">>

\* C2: if the option diagnostics, the type check or the diagnostics check of
\* the downlevel or closure pass reports an error, the run is aborted: the
\* promise of main is rejected and neither emit is performed.
C2_ReportedErrorAborts ==
    reported # {} =>
        /\ promise = "rejected"
        /\ ~taken("emitJs")
        /\ ~taken("emitDts")
        /\ pc = "rejected"

C2_Witness ==
    /\ reported = {"downlevel"}
    /\ promise = "rejected"
    /\ taken("typeCheck")

\* C3 as stated: in every run whose promise is rejected nothing has been
\* written: no generated unit, JS file, declaration file or sidecar.
C3_NothingWrittenWhenRejected ==
    promise = "rejected" => disk = {}

\* C3 amended: a run rejected before its first emit begins (configuration,
\* option diagnostics, codegen, type check, downlevel or closure check) has
\* left no JS file, declaration file or metadata sidecar; the generated units
\* codegen wrote before the failure stay on disk.
C3_NothingEmittedWhenRejectedBeforeEmit ==
    ( /\ promise = "rejected"
      /\ locals.failedAt \in {"readConfiguration", "optionsDiagnostics", "codegen",
                              "typeCheck", "downlevel", "closure"} )
        => \A f \in disk : f.fileName = A_NGFACTORY_TS

C3_Witness ==
    /\ promise = "rejected"
    /\ locals.failedAt = "typeCheck"
    /\ onDisk(disk, A_NGFACTORY_TS)

\* C4 as stated: every Program main creates after the first is seeded from
\* the Program before it, and no Program is the seed of two Programs.
C4_EveryProgramSeededFromPrior ==
    /\ \A i \in 2..Len(programs) : programs[i].oldProgram = i - 1
    /\ \A i, j \in 1..Len(programs) :
          (i # j /\ programs[i].oldProgram # 0)
              => programs[i].oldProgram # programs[j].oldProgram

\* C4 amended: the Program created after codegen is a new Program seeded
\* from the first Program; the Program of each enabled downlevel or closure
\* pass is a new Program created with no seed, for a host reconfigured with
\* the Program before it; no Program is the seed of two Programs.
C4_OnlyCodegenProgramSeeded ==
    /\ Len(programs) >= 2 => programs[2].oldProgram = 1
    /\ \A i \in 3..Len(programs) :
          programs[i].oldProgram = 0 /\ programs[i].held = i - 1
    /\ \A i, j \in 1..Len(programs) :
          (i # j /\ programs[i].oldProgram # 0)
              => programs[i].oldProgram # programs[j].oldProgram
    /\ taken("createProgramWithCodegen") =>
          (Len(programs) >= 2 /\ locals.programWithCodegen = 2)
    /\ (taken("typeCheck") /\ pc # "rejected") =>
          LET n == 2 + (IF taken("downlevel") THEN 1 ELSE 0)
                     + (IF taken("closure") THEN 1 ELSE 0)
          IN Len(programs) = n /\ locals.programForJsEmit = n

C4_Witness ==
    /\ Len(programs) = 4
    /\ taken("closure")
    /\ locals.programForJsEmit = 4
    /\ locals.programWithCodegen = 2

\* C6: the metadata sidecar of a file is on disk only when the file's
\* primary content is: no state has F.metadata.json written and F.js not.
C6_SidecarOnlyAfterPrimary ==
    \A f \in disk :
        EndsWith(f.fileName, DOT_METADATA_JSON) =>
            onDisk(disk, DropLast(f.fileName, Len(DOT_METADATA_JSON)) \o DOT_JS)


(***************************************************************************)
(* DecoratorDownlevelCompilerHost (the annotation conversion host).  A     *)
(* text is a sequence of tokens; "@A" and "@B" are annotations.            *)
(***************************************************************************)
\* most getSourceFile calls made on one host
MaxGets == 2

Texts == {<<"x">>, <<"@A", "x">>, <<"@B", "y">>}

ConvFiles == {A_TS, A_D_TS}

ANNOTATION_SUPPORT == <<"interface DecoratorInvocation">>

\* the output of tsickle.convertDecorators: each annotation becomes a literal
RECURSIVE convertDecorators(_)
convertDecorators(text) ==
    IF text = <<>>
    THEN <<>>
    ELSE LET t == Head(text)
             literal == CASE t = "@A" -> <<"static decorators = [", "A", "]">>
                          [] t = "@B" -> <<"static decorators = [", "B", "]">>
                          [] OTHER -> <<t>>
         IN literal \o convertDecorators(Tail(text))

\* the output of tsickle.annotate: the text with JSDoc type annotations
annotate(text) == <<"/** @type {?} */">> \o text

\* the substitute Program the constructor builds: with googleClosureOutput the
\* units that are not declaration files are replaced by their annotated text
substituteProgramOf(program, googleClosureOutput) ==
    [f \in DOMAIN program |->
        IF googleClosureOutput /\ ~DTS(f) THEN annotate(program[f]) ELSE program[f]]

\* getSourceFile converting the unit of the selected `program' (the
\* substitute one with googleClosureOutput) instead of this.program's
getSourceFile_ofSelectedProgram(h, fileName, diagnostics, throws) ==
    LET originalContent == h.files[fileName]
        program == IF h.googleClosureOutput THEN h.substituteProgram ELSE h.program
    IN IF DTS(fileName)
       THEN [threw |-> FALSE, text |-> originalContent, diagnostics |-> h.diagnostics]
       ELSE IF throws
       THEN [threw |-> TRUE, text |-> <<>>, diagnostics |-> h.diagnostics]
       ELSE [threw |-> FALSE,
             text |-> convertDecorators(program[fileName]) \o ANNOTATION_SUPPORT,
             diagnostics |-> h.diagnostics \o diagnostics]

\* getSourceFile swallowing the failure of the rewrite and returning the unit
\* of the unrewritten content
getSourceFile_fallback(h, fileName, diagnostics, throws) ==
    LET originalContent == h.files[fileName]
    IN IF DTS(fileName) \/ throws
       THEN [threw |-> FALSE, text |-> originalContent, diagnostics |-> h.diagnostics]
       ELSE [threw |-> FALSE,
             text |-> convertDecorators(h.program[fileName]) \o ANNOTATION_SUPPORT,
             diagnostics |-> h.diagnostics \o diagnostics]

\* getSourceFile = (fileName, languageVersion, onError) => ...
\* diagnostics and throws are what tsickle.convertDecorators does on the unit:
\* the diagnostics it returns, or that it throws.
DecoratorDownlevelCompilerHost_getSourceFile(h, fileName, diagnostics, throws) ==
    LET originalContent == h.files[fileName]
    IN IF DTS(fileName)
       THEN [threw |-> FALSE, text |-> originalContent, diagnostics |-> h.diagnostics]
       ELSE IF throws
       THEN [threw |-> TRUE, text |-> <<>>, diagnostics |-> h.diagnostics]
       ELSE [threw |-> FALSE,
             text |-> convertDecorators(h.program[fileName]) \o ANNOTATION_SUPPORT,
             diagnostics |-> h.diagnostics \o diagnostics]

GetSourceFile ==
    /\ convHost.calls < MaxGets
    /\ \E fileName \in ConvFiles, throws \in BOOLEAN,
          diagnostics \in {<<>>, <<"warning">>} :
         LET r == DecoratorDownlevelCompilerHost_getSourceFile(
                      convHost, fileName, diagnostics, throws)
             converts == ~DTS(fileName)
         IN /\ lastGet' = [called |-> TRUE, fileName |-> fileName,
                           threw |-> r.threw, text |-> r.text,
                           convertThrew |-> converts /\ throws]
            /\ convHost' = [convHost EXCEPT
                    !.diagnostics = r.diagnostics,
                    !.produced = IF converts /\ ~throws THEN @ \o diagnostics ELSE @,
                    !.calls = @ + 1]
    /\ UNCHANGED <<notConv, tsickleHost>>

\* TsickleCompilerHost: getSourceFile = (fileName, languageVersion, onError) => ...
\* diagnostics are the ones tsickle.annotate returns for the unit.
TsickleCompilerHost_getSourceFile(h, fileName, diagnostics) ==
    LET sourceFile == h.oldProgram[fileName]
        isDefinitions == DTS(fileName)
    IN IF isDefinitions
       THEN [text |-> sourceFile, diagnostics |-> h.diagnostics]
       ELSE [text |-> annotate(sourceFile), diagnostics |-> diagnostics]

TsickleGetSourceFile ==
    /\ tsickleHost.calls < MaxGets
    /\ \E fileName \in ConvFiles, diagnostics \in {<<>>, <<"warning">>} :
         LET r == TsickleCompilerHost_getSourceFile(tsickleHost, fileName, diagnostics)
         IN tsickleHost' = [tsickleHost EXCEPT
                !.diagnostics = r.diagnostics,
                !.produced = IF DTS(fileName) THEN @ ELSE @ \o diagnostics,
                !.calls = @ + 1,
                !.last = [called |-> TRUE, fileName |-> fileName, threw |-> FALSE,
                          text |-> r.text, convertThrew |-> FALSE]]
    /\ UNCHANGED <<notConv, convHost, lastGet>>

InitConv ==
    /\ HostInit
    /\ annotated = {}
    /\ MainIdle
    /\ \E program \in [ConvFiles -> Texts], files \in [ConvFiles -> Texts],
          googleClosureOutput \in BOOLEAN :
         /\ convHost = [googleClosureOutput |-> googleClosureOutput,
                     program |-> program,
                     substituteProgram |->
                         substituteProgramOf(program, googleClosureOutput),
                     files |-> files,
                     diagnostics |-> <<>>,
                     produced |-> <<>>,
                     calls |-> 0]
            /\ tsickleHost = [oldProgram |-> program, diagnostics |-> <<>>,
                              produced |-> <<>>, calls |-> 0, last |-> NoGet]
    /\ lastGet = NoGet
    /\ RestIdle

NextConv == GetSourceFile \/ TsickleGetSourceFile

SpecConv == InitConv /\ [][NextConv]_vars

C11_DiagnosticsAccumulate ==
    /\ convHost.diagnostics = convHost.produced
    /\ tsickleHost.diagnostics = tsickleHost.produced

\* C12: when the annotation rewrite of a file that is not a declaration file
\* throws, getSourceFile throws too: it returns no unit, does not fall back
\* to the unrewritten content, and leaves the diagnostics list as it was.
C12_RewriteFailureIsFatal ==
    [][(convHost'.calls # convHost.calls /\ lastGet'.convertThrew) =>
          /\ lastGet'.threw
          /\ lastGet'.text = <<>>
          /\ convHost'.diagnostics = convHost.diagnostics]_vars

C12_Witness ==
    /\ lastGet.called
    /\ lastGet.convertThrew
    /\ lastGet.fileName = A_TS
    /\ convHost.files[A_TS] = <<"@A", "x">>
    /\ convHost.diagnostics = <<"warning">>


(***************************************************************************)
(* DelegatingHost: a wrapper whose members forward to the inner host       *)
(* (the delegate).  The inner host answers every operation it defines; an  *)
(* invocation records the operation, its arguments and the receiver.       *)
(***************************************************************************)
Operations ==
    {"getSourceFile", "getCancellationToken", "getDefaultLibFileName",
     "getDefaultLibLocation", "writeFile", "getCurrentDirectory",
     "getDirectories", "getCanonicalFileName", "useCaseSensitiveFileNames",
     "getNewLine", "fileExists", "readFile", "trace", "directoryExists"}

\* the operations a host of this code base may lack
OptionalOperations == {"getDirectories", "getDefaultLibLocation", "trace"}

ArgumentsOf(op) ==
    CASE op \in {"getCancellationToken", "getDefaultLibLocation",
                 "getCurrentDirectory", "useCaseSensitiveFileNames",
                 "getNewLine"} -> {<<>>}
      [] op = "getSourceFile" ->
             {<<"a.ts", "ES5", "onError">>, <<"b.ts", "ES2015", "undefined">>}
      [] op = "getDefaultLibFileName" -> {<<"options">>}
      [] op = "writeFile" ->
             {<<"a.js", "d1", "false", "onError", "sourceFiles">>,
              <<"a.d.ts", "d2", "true", "undefined", "undefined">>}
      [] OTHER -> {<<"a.ts">>, <<"b.ts">>}

\* what the inner host returns from an operation it defines
delegate(op, args) == <<"result of", op>> \o args

Invocation(op, args, receiver) == [op |-> op, args |-> args, receiver |-> receiver]

TypeError == [invoked |-> <<>>, result |-> <<>>, threw |-> TRUE]

\* a wrapper whose getDirectories answers [] without asking the inner host
DelegatingHost_getDirectoriesEmpty(defined, op, args) ==
    IF op = "getDirectories"
    THEN [invoked |-> <<>>, result |-> <<>>, threw |-> FALSE]
    ELSE IF op \in defined
    THEN [invoked |-> <<Invocation(op, args, "delegate")>>,
          result |-> delegate(op, args), threw |-> FALSE]
    ELSE TypeError

\* One call of member `op' of a DelegatingHost whose inner host defines the
\* operations `defined'.  Every member is an arrow calling this.delegate.op
\* but writeFile, which is the inner host's function itself (called with the
\* wrapper as receiver), and getDirectories, which answers [] when the inner
\* host has no getDirectories.
DelegatingHost(defined, op, args) ==
    CASE op = "writeFile" ->
             IF op \in defined
             THEN [invoked |-> <<Invocation(op, args, "wrapper")>>,
                   result |-> delegate(op, args), threw |-> FALSE]
             ELSE TypeError
      [] op = "getDirectories" ->
             IF op \in defined
             THEN [invoked |-> <<Invocation(op, args, "delegate")>>,
                   result |-> delegate(op, args), threw |-> FALSE]
             ELSE [invoked |-> <<>>, result |-> <<>>, threw |-> FALSE]
      [] OTHER ->
             IF op \in defined
             THEN [invoked |-> <<Invocation(op, args, "delegate")>>,
                   result |-> delegate(op, args), threw |-> FALSE]
             ELSE TypeError

Call ==
    /\ \E op \in Operations :
         \E args \in ArgumentsOf(op) :
            LET r == DelegatingHost(delegating.defined, op, args)
            IN delegating' = [delegating EXCEPT
                   !.last = [called |-> TRUE, op |-> op, args |-> args,
                             invoked |-> r.invoked, result |-> r.result,
                             threw |-> r.threw]]
    /\ UNCHANGED <<hostVars, mainVars, convVars, generator, emitPathCall, patchCall, laterVars>>

InitDelegating ==
    /\ HostInit
    /\ annotated = {}
    /\ MainIdle
    /\ ConvIdle
    /\ LaterIdle
    /\ GeneratorIdle
    /\ EmitPathIdle
    /\ PatchIdle
    /\ \E missing \in SUBSET OptionalOperations :
         delegating = [defined |-> Operations \ missing, last |-> NoOperation]

NextDelegating == Call

SpecDelegating == InitDelegating /\ [][NextDelegating]_vars

forwardedOnce(c) ==
    /\ ~c.threw
    /\ Len(c.invoked) = 1
    /\ c.invoked[1].op = c.op
    /\ c.invoked[1].args = c.args
    /\ c.result = delegate(c.op, c.args)

\* C13: for every operation a DelegatingHost subclass does not override, a
\* call on the wrapper invokes the same operation of the inner host exactly
\* once with the same arguments and returns the inner host's result.
C13_EveryOperationForwardedOnce ==
    delegating.last.called => forwardedOnce(delegating.last)

\* C13 (amended): the same, for every operation the inner host defines;
\* getDirectories on an inner host that has no getDirectories returns the
\* empty list and invokes nothing on the inner host.
C13_DefinedOperationForwardedOnce ==
    delegating.last.called =>
        /\ delegating.last.op \in delegating.defined =>
               forwardedOnce(delegating.last)
        /\ (delegating.last.op = "getDirectories"
              /\ "getDirectories" \notin delegating.defined) =>
               /\ ~delegating.last.threw
               /\ delegating.last.invoked = <<>>
               /\ delegating.last.result = <<>>

C13_Witness ==
    /\ delegating.last.called
    /\ delegating.last.op = "getDirectories"
    /\ delegating.last.args = <<"b.ts">>
    /\ delegating.defined = Operations \ {"trace"}


(***************************************************************************)
(* CodeGenerator.calculateEmitPath.  A path is the sequence of its         *)
(* segments, leading separator left out, and a segment is a character      *)
(* sequence: <<<<"s">>, <<"a", ".", "t", "s">>>> is /s/a.ts.  A relative   *)
(* path is a sequence of segments too, ".." among them.                    *)
(***************************************************************************)
\* most entries of options.rootDirs
MaxRootDirs == 2

PARENT == <<".", ".">>

RECURSIVE commonLength(_, _)
commonLength(p, q) ==
    IF p = <<>> \/ q = <<>> \/ Head(p) # Head(q)
    THEN 0
    ELSE 1 + commonLength(Tail(p), Tail(q))

\* path.relative(from, to) of two absolute paths
path_relative(from, to) ==
    LET common == commonLength(from, to)
    IN [i \in 1..(Len(from) - common) |-> PARENT]
           \o SubSeq(to, common + 1, Len(to))

\* path.join(dir, relative): the concatenation, normalised
RECURSIVE path_join(_, _)
path_join(dir, relative) ==
    IF relative = <<>>
    THEN dir
    ELSE IF Head(relative) = PARENT
    THEN path_join(IF dir = <<>> THEN dir ELSE DropLast(dir, 1), Tail(relative))
    ELSE path_join(Append(dir, Head(relative)), Tail(relative))

\* relative.indexOf('.') === 0: the first character of the path is a dot
startsWithDot(relative) == relative # <<>> /\ Head(Head(relative)) = "."

\* relativePath.startsWith('..' + path.sep)
startsWithParent(relative) == Len(relative) > 1 /\ Head(relative) = PARENT

\* the for loop of calculateEmitPath: the last root directory whose relative
\* path to the file does not start with a dot, else the root handed in
RECURSIVE rootOf(_, _, _)
rootOf(root, rootDirs, filePath) ==
    IF rootDirs = <<>>
    THEN root
    ELSE LET eachRootDir == Head(rootDirs)
         IN rootOf(IF ~startsWithDot(path_relative(eachRootDir, filePath))
                   THEN eachRootDir
                   ELSE root,
                   Tail(rootDirs), filePath)

\* the while loop of calculateEmitPath
RECURSIVE stripParents(_)
stripParents(relativePath) ==
    IF startsWithParent(relativePath)
    THEN stripParents(Tail(relativePath))
    ELSE relativePath

\* calculateEmitPath without the loop that strips the leading `..'
calculateEmitPath_noStrip(options, filePath) ==
    LET root == rootOf(options.basePath, options.rootDirs, filePath)
    IN path_join(options.genDir, path_relative(root, filePath))

calculateEmitPath(options, filePath) ==
    LET root == rootOf(options.basePath, options.rootDirs, filePath)
        relativePath == stripParents(path_relative(root, filePath))
    IN path_join(options.genDir, relativePath)

Dirs == {<<>>, <<<<"s">>>>, <<<<"t">>>>, <<<<"s">>, <<"t">>>>,
         <<<<"s">>, <<".", "h">>>>}

GenDirs == {<<<<"g">>>>, <<<<"s">>, <<"g">>>>}

\* the URLs of generated modules
ModuleUrls == {Append(d, A_NGFACTORY_TS) : d \in Dirs}

CalculateEmitPath ==
    /\ ~emitPathCall.called
    /\ emitPathCall' = [emitPathCall EXCEPT
           !.called = TRUE,
           !.result = calculateEmitPath(emitPathCall, emitPathCall.filePath)]
    /\ UNCHANGED <<hostVars, mainVars, convVars, delegating, generator, patchCall, laterVars>>

InitEmitPath ==
    /\ HostInit
    /\ annotated = {}
    /\ MainIdle
    /\ ConvIdle
    /\ LaterIdle
    /\ DelegatingIdle
    /\ GeneratorIdle
    /\ PatchIdle
    /\ \E basePath \in Dirs, rootDirs \in SeqsUpTo(Dirs, MaxRootDirs),
          genDir \in GenDirs, filePath \in ModuleUrls :
         emitPathCall = [called |-> FALSE, basePath |-> basePath,
                         rootDirs |-> rootDirs, genDir |-> genDir,
                         filePath |-> filePath, result |-> <<>>]

NextEmitPath == CalculateEmitPath

SpecEmitPath == InitEmitPath /\ [][NextEmitPath]_vars

isPrefix(p, q) == Len(p) <= Len(q) /\ SubSeq(q, 1, Len(p)) = p

\* C19: for every generated module URL, whatever basePath and rootDirs are,
\* the emit path lies inside genDir: it is genDir followed by at least the
\* file name, and no parent-directory segment is left in it.
C19_EmitPathInsideGenDir ==
    emitPathCall.called =>
        /\ isPrefix(emitPathCall.genDir, emitPathCall.result)
        /\ Len(emitPathCall.result) > Len(emitPathCall.genDir)
        /\ \A i \in 1..Len(emitPathCall.result) : emitPathCall.result[i] # PARENT

C19_Witness ==
    /\ emitPathCall.called
    /\ emitPathCall.basePath = <<<<"s">>, <<"t">>>>
    /\ emitPathCall.rootDirs = <<<<<<"s">>, <<".", "h">>>>>>
    /\ emitPathCall.filePath = <<<<"t">>, A_NGFACTORY_TS>>
    /\ emitPathCall.result = <<<<"g">>, <<"t">>, A_NGFACTORY_TS>>

\* the root directories the file lies under
containing(rootDirs, filePath) ==
    {i \in 1..Len(rootDirs) : isPrefix(rootDirs[i], filePath)}

\* C20: calculateEmitPath re-roots the path relative to a configured root
\* directory the file lies under whenever there is one, and relative to
\* basePath only when no configured root directory contains the file.
C20_ReRootedUnderContainingRootDir ==
    emitPathCall.called =>
        LET c == emitPathCall
            under == containing(c.rootDirs, c.filePath)
        IN IF under # {}
           THEN \E i \in under :
                    c.result = c.genDir
                        \o SubSeq(c.filePath, Len(c.rootDirs[i]) + 1, Len(c.filePath))
           ELSE c.result = path_join(c.genDir,
                               stripParents(path_relative(c.basePath, c.filePath)))


(***************************************************************************)
(* The patch codegen() applies to a generated source before writing it.    *)
(* A source is a sequence of lexemes; ".", "<", ">", "(", ")" and the line *)
(* break are lexemes of their own, so that the regular expressions of the  *)
(* code read on lexemes as they do on characters.                          *)
(***************************************************************************)
\* most statements of a generated source
MaxStatements == 3

THIS_PARENT == <<"this", ".", "parent">>
THIS_PARENT_PARENT == <<"this", ".", "parent", ".", "parent">>

startsWith(s, prefix) ==
    Len(s) >= Len(prefix) /\ SubSeq(s, 1, Len(prefix)) = prefix

from(s, i) == SubSeq(s, i, Len(s))

\* the length of the longest prefix of s that holds no "."
RECURSIVE noDots(_)
noDots(s) ==
    IF s = <<>> \/ Head(s) = "." THEN 0 ELSE 1 + noDots(Tail(s))

\* the length of the match of /this\.parent\.[^\.]+\.transform/ (chain is
\* this.parent) or /this\.parent\.parent\.[^\.]+\.transform/ at the start of
\* s, 0 when there is none
errorMatchAt(s, chain) ==
    IF ~startsWith(s, chain \o <<".">>)
    THEN 0
    ELSE LET rest == from(s, Len(chain) + 2)
             member == noDots(rest)
         IN IF member > 0 /\ startsWith(from(rest, member + 1), <<".", "transform">>)
            THEN Len(chain) + 1 + member + 2
            ELSE 0

\* source.match(errorRegex): the matches, from left to right
RECURSIVE errorMatches(_, _)
errorMatches(s, chain) ==
    IF s = <<>>
    THEN <<>>
    ELSE LET n == errorMatchAt(s, chain)
         IN IF n > 0
            THEN <<SubSeq(s, 1, n)>> \o errorMatches(from(s, n + 1), chain)
            ELSE errorMatches(Tail(s), chain)

\* the lazy group of /<(.*?)>this\.parent/ for a "<" at the start of s: the
\* length of the shortest text on the line that ">" and the chain follow,
\* -1 when there is none
RECURSIVE groupLength(_, _)
groupLength(s, chain) ==
    IF s = <<>> THEN -1
    ELSE IF startsWith(s, <<">">> \o chain) THEN 0
    ELSE IF Head(s) = "\n" THEN -1
    ELSE LET n == groupLength(Tail(s), chain)
         IN IF n < 0 THEN -1 ELSE n + 1

\* fixRegex.exec(source): the first match, as its group
RECURSIVE fixMatch(_, _)
fixMatch(s, chain) ==
    IF s = <<>>
    THEN [found |-> FALSE, group |-> <<>>]
    ELSE IF Head(s) = "<" /\ groupLength(Tail(s), chain) >= 0
    THEN [found |-> TRUE, group |-> SubSeq(s, 2, 1 + groupLength(Tail(s), chain))]
    ELSE fixMatch(Tail(s), chain)

\* source.replace(pattern, replacement) with a string pattern: the first
\* occurrence only
RECURSIVE replace(_, _, _)
replace(s, pattern, replacement) ==
    IF s = <<>> THEN <<>>
    ELSE IF startsWith(s, pattern) THEN replacement \o from(s, Len(pattern) + 1)
    ELSE <<Head(s)>> \o replace(Tail(s), pattern, replacement)

\* errorMatches.forEach(errorMatch => source = source.replace(...)); the
\* replacement is '(<' + fixMatch[1] + '>this.parent)' + errorMatch.substr(n)
\* where n is the length of the chain
RECURSIVE replaceEach(_, _, _, _)
replaceEach(source, matches, group, chain) ==
    IF matches = <<>>
    THEN source
    ELSE LET errorMatch == Head(matches)
             replacement == <<"(", "<">> \o group \o <<">">> \o THIS_PARENT \o <<")">>
                                \o from(errorMatch, Len(chain) + 1)
         IN replaceEach(replace(source, errorMatch, replacement),
                        Tail(matches), group, chain)

\* one of the two rules of the patch
patchRule(source, chain) ==
    LET matches == errorMatches(source, chain)
        fix == fixMatch(source, chain)
    IN IF matches # <<>> /\ fix.found
       THEN replaceEach(source, matches, fix.group, chain)
       ELSE source

\* the patch applying the rule of this.parent only
patch_oneLevel(source) == patchRule(source, THIS_PARENT)

\* lines 118-139: the rule of this.parent, then the rule of this.parent.parent,
\* which reads the source the first rule left
patch(source) ==
    CHOOSE patched \in {patchRule(once, THIS_PARENT_PARENT) :
                           once \in {patchRule(s, THIS_PARENT) : s \in {source}}} : TRUE

\* the statements generated sources are made of, one on a line
Statements ==
    {<<"x", ";", "\n">>,
     <<"(", "<", "V", ">", "this", ".", "parent", ")", ".", "ctx", ";", "\n">>,
     <<"(", "<", "W", ">", "this", ".", "parent", ".", "parent", ")", ".", "ctx", ";", "\n">>,
     <<"this", ".", "parent", ".", "p", ".", "transform", "(", ")", ";", "\n">>,
     <<"this", ".", "parent", ".", "q", ".", "transform", "(", ")", ";", "\n">>,
     <<"this", ".", "parent", ".", "parent", ".", "p", ".", "transform", "(", ")", ";", "\n">>}

RECURSIVE flatten(_)
flatten(q) == IF q = <<>> THEN <<>> ELSE Head(q) \o flatten(Tail(q))

Sources == {flatten(q) : q \in SeqsUpTo(Statements, MaxStatements)}

Patch ==
    /\ ~patchCall.called
    /\ patchCall' = [patchCall EXCEPT !.called = TRUE,
                                      !.result = patch(patchCall.source)]
    /\ UNCHANGED <<hostVars, mainVars, convVars, delegating, generator, emitPathCall, laterVars>>

InitPatch ==
    /\ HostInit
    /\ annotated = {}
    /\ MainIdle
    /\ ConvIdle
    /\ LaterIdle
    /\ DelegatingIdle
    /\ GeneratorIdle
    /\ EmitPathIdle
    /\ \E source \in Sources :
         patchCall = [called |-> FALSE, source |-> source, result |-> <<>>]

NextPatch == Patch

SpecPatch == InitPatch /\ [][NextPatch]_vars


(***************************************************************************)
(* CodeGenerator.codegen().  The synchronous part (classification of the   *)
(* units, module analysis, the compile calls) is one step; the promise of  *)
(* each compile call then settles in any order, and the callback chained   *)
(* to it writes the generated modules.  File names are paths as above and  *)
(* are canonical already.                                                  *)
(***************************************************************************)
DOT_CSS == <<".", "c", "s", "s">>
DOT_SHIM == <<".", "s", "h", "i", "m">>

\* /\.ngfactory\.ts$|\.css\.ts$|\.css\.shim\.ts$/
GENERATED_FILES(f) ==
    LET name == f[Len(f)]
    IN \/ EndsWith(name, DOT_NGFACTORY \o DOT_TS)
       \/ EndsWith(name, DOT_CSS \o DOT_TS)
       \/ EndsWith(name, DOT_CSS \o DOT_SHIM \o DOT_TS)

PREAMBLE == <<"PREAMBLE">>

S_A_TS == <<<<"s">>, A_TS>>
S_B_TS == <<<<"s">>, B_TS>>
S_A_NGFACTORY_TS == <<<<"s">>, A_NGFACTORY_TS>>
S_A_CSS_TS == <<<<"s">>, <<"a">> \o DOT_CSS \o DOT_TS>>
S_A_CSS_SHIM_TS == <<<<"s">>, <<"a">> \o DOT_CSS \o DOT_SHIM \o DOT_TS>>

\* program.getSourceFiles() of the programs handed to the generator
SourceFileLists ==
    {<<S_A_TS, S_B_TS>>, <<S_A_TS, S_A_NGFACTORY_TS, S_B_TS>>,
     <<S_A_CSS_TS, S_B_TS>>, <<S_A_TS, S_A_CSS_SHIM_TS>>}

\* what staticReflector.getModuleMetadata may return for a file: nothing, or
\* the symbols of its metadata, each with the annotations of its declaration
Symbol(name, symbolic, annotations) ==
    [name |-> name, symbolic |-> symbolic, annotations |-> annotations]

ModuleMetadatas ==
    {[found |-> FALSE, symbols |-> <<>>],
     [found |-> TRUE, symbols |-> <<>>],
     [found |-> TRUE, symbols |-> <<Symbol("Cmp", "class", <<"Component">>)>>],
     [found |-> TRUE, symbols |-> <<Symbol("Mod", "class", <<"NgModule">>)>>],
     [found |-> TRUE, symbols |-> <<Symbol("Bad", "error", <<"Component">>),
                                    Symbol("Cmp", "class", <<"Injectable", "Component">>),
                                    Symbol("Mod", "class", <<"NgModule">>)>>]}

\* reflectorHost.findDeclaration(absSourcePath, symbol, absSourcePath)
StaticType(absSourcePath, symbol) == [filePath |-> absSourcePath, name |-> symbol]

\* the for loop of readFileMetadata over the symbols of the metadata
RECURSIVE classify(_, _, _)
classify(symbols, absSourcePath, result) ==
    IF symbols = <<>>
    THEN result
    ELSE LET symbol == Head(symbols)
             staticType == StaticType(absSourcePath, symbol.name)
             has(kind) == \E i \in 1..Len(symbol.annotations) :
                              symbol.annotations[i] = kind
         IN IF symbol.symbolic = "error"
            THEN classify(Tail(symbols), absSourcePath, result)
            ELSE classify(Tail(symbols), absSourcePath,
                     [result EXCEPT
                         !.ngModules = IF has("NgModule")
                                       THEN Append(@, staticType) ELSE @,
                         !.components = IF has("Component")
                                        THEN Append(@, staticType) ELSE @])

readFileMetadata(metadata, absSourcePath) ==
    LET moduleMetadata == metadata[absSourcePath]
        result == [components |-> <<>>, ngModules |-> <<>>, fileUrl |-> absSourcePath]
    IN IF ~moduleMetadata.found
       THEN result
       ELSE classify(moduleMetadata.symbols, absSourcePath, result)

LogEntry(call, fileUrl, graph, components, ngModules) ==
    [call |-> call, fileUrl |-> fileUrl, graph |-> graph,
     components |-> components, ngModules |-> ngModules]

\* compiler.analyzeModules(ngModules): the analyzed module graph
analyzeModules(ngModules) == <<"graph of">> \o ngModules

\* fileMetas.reduce(...): the module descriptors of all the files, in order
RECURSIVE ngModulesOf(_)
ngModulesOf(fileMetas) ==
    IF fileMetas = <<>>
    THEN <<>>
    ELSE Head(fileMetas).ngModules \o ngModulesOf(Tail(fileMetas))

readCalls(fileMetas) ==
    [i \in 1..Len(fileMetas) |->
        LogEntry("readFileMetadata", fileMetas[i].fileUrl, <<>>, <<>>, <<>>)]

compileCall(fileMeta, analyzedNgModules) ==
    LogEntry("compile", fileMeta.fileUrl, analyzedNgModules,
             fileMeta.components, fileMeta.ngModules)

\* codegen() classifying the generated units as well
codegen_unfiltered(program, metadata) ==
    LET fileMetas == [i \in 1..Len(program) |-> readFileMetadata(metadata, program[i])]
        analyzedNgModules == analyzeModules(ngModulesOf(fileMetas))
    IN readCalls(fileMetas)
         \o <<LogEntry("analyzeModules", <<>>, <<>>, <<>>, ngModulesOf(fileMetas))>>
         \o [i \in 1..Len(fileMetas) |-> compileCall(fileMetas[i], analyzedNgModules)]

\* codegen() analysing, before each compile call, the modules of that file
codegen_analyzePerFile(program, metadata) ==
    LET filePaths == SelectSeq(program, LAMBDA f : ~GENERATED_FILES(f))
        fileMetas == [i \in 1..Len(filePaths) |->
                         readFileMetadata(metadata, filePaths[i])]
        each(fileMeta) ==
            <<LogEntry("analyzeModules", <<>>, <<>>, <<>>, fileMeta.ngModules),
              compileCall(fileMeta, analyzeModules(fileMeta.ngModules))>>
    IN readCalls(fileMetas)
         \o (IF fileMetas = <<>> THEN <<>> ELSE each(fileMetas[1]))
         \o (IF Len(fileMetas) < 2 THEN <<>> ELSE each(fileMetas[2]))

\* codegen() compiling only the files that hold a component
codegen_onlyComponents(program, metadata) ==
    LET filePaths == SelectSeq(program, LAMBDA f : ~GENERATED_FILES(f))
        fileMetas == [i \in 1..Len(filePaths) |->
                         readFileMetadata(metadata, filePaths[i])]
        analyzedNgModules == analyzeModules(ngModulesOf(fileMetas))
        compiled == SelectSeq(fileMetas, LAMBDA fm : fm.components # <<>>)
    IN readCalls(fileMetas)
         \o <<LogEntry("analyzeModules", <<>>, <<>>, <<>>, ngModulesOf(fileMetas))>>
         \o [i \in 1..Len(compiled) |-> compileCall(compiled[i], analyzedNgModules)]

\* The synchronous part of codegen(): the calls it makes, in order.
CodeGenerator_codegen(program, metadata) ==
    LET filePaths == SelectSeq(program, LAMBDA f : ~GENERATED_FILES(f))
        fileMetas == [i \in 1..Len(filePaths) |->
                         readFileMetadata(metadata, filePaths[i])]
        ngModules == ngModulesOf(fileMetas)
        analyzedNgModules == analyzeModules(ngModules)
    IN readCalls(fileMetas)
         \o <<LogEntry("analyzeModules", <<>>, <<>>, <<>>, ngModules)>>
         \o [i \in 1..Len(fileMetas) |-> compileCall(fileMetas[i], analyzedNgModules)]

callsOf(log, call) == SelectSeq(log, LAMBDA e : e.call = call)

\* what the promise of compiler.compile resolves to: the generated modules
GeneratedModule(fileUrl, suffix, source) ==
    [moduleUrl |-> Append(DropLast(fileUrl, 1),
                          DropLast(fileUrl[Len(fileUrl)], Len(DOT_TS)) \o suffix),
     source |-> source]

compile(fileUrl, analyzedNgModules, components, ngModules) ==
    IF components # <<>>
    THEN <<GeneratedModule(fileUrl, DOT_NGFACTORY \o DOT_TS,
               <<"<", "V", ">", "this", ".", "parent", ".", "p", ".", "transform">>),
           GeneratedModule(fileUrl, DOT_CSS \o DOT_SHIM \o DOT_TS, <<"styles">>)>>
    ELSE IF ngModules # <<>>
    THEN <<GeneratedModule(fileUrl, DOT_NGFACTORY \o DOT_TS, <<"factories">>)>>
    ELSE <<>>

GeneratorOptions == [basePath |-> <<<<"s">>>>, rootDirs |-> <<>>, genDir |-> <<<<"g">>>>]

\* the callback writing the generated sources as they are, no preamble
writesOf_noPreamble(c) ==
    LET generatedModules == compile(c.fileUrl, c.graph, c.components, c.ngModules)
    IN [j \in 1..Len(generatedModules) |->
           [fileName |-> calculateEmitPath(GeneratorOptions, generatedModules[j].moduleUrl),
            data |-> patch(generatedModules[j].source),
            sourceFiles |-> <<c.fileUrl>>]]

\* the this.host.writeFile(emitPath, PREAMBLE + source, false, () => {},
\* [sourceFile]) calls of the callback chained to one compile call
writesOf(c) ==
    CHOOSE writes \in
        {[j \in 1..Len(generatedModules) |->
             [fileName |-> calculateEmitPath(GeneratorOptions, generatedModules[j].moduleUrl),
              data |-> PREAMBLE \o patch(generatedModules[j].source),
              sourceFiles |-> <<c.fileUrl>>]] :
         generatedModules \in {compile(c.fileUrl, c.graph, c.components, c.ngModules)}} :
        TRUE

\* codegen() without the catch: the promise rejects with the first failure
codegen_uncaught(g, i, failed) ==
    LET tasks == [g.tasks EXCEPT ![i] = IF failed THEN "failed" ELSE "written"]
    IN [g EXCEPT
           !.tasks = tasks,
           !.promise = IF g.promise = "pending" /\ failed
                       THEN "rejected"
                       ELSE IF g.promise = "pending"
                               /\ \A j \in 1..Len(tasks) : tasks[j] = "written"
                       THEN "resolved"
                       ELSE @]

\* Promise.all(...).catch(e => console.error(e.stack)) when task i settles:
\* the first failure rejects the aggregate, the catch logs it and the promise
\* of codegen() resolves; the fulfilment of every task resolves it too.
codegen_settled(g, i, failed) ==
    LET tasks == [g.tasks EXCEPT ![i] = IF failed THEN "failed" ELSE "written"]
    IN [g EXCEPT
           !.tasks = tasks,
           !.logged = IF g.promise = "pending" /\ failed
                      THEN Append(@, callsOf(g.log, "compile")[i].fileUrl)
                      ELSE @,
           !.promise = IF g.promise = "pending"
                          /\ (failed \/ \A j \in 1..Len(tasks) : tasks[j] = "written")
                       THEN "resolved"
                       ELSE @]

\* codegen() up to the return of the aggregate promise
Codegen ==
    /\ ~generator.started
    /\ LET log == CodeGenerator_codegen(generator.program, generator.metadata)
           compiles == callsOf(log, "compile")
       IN generator' = [generator EXCEPT
              !.started = TRUE,
              !.log = log,
              !.tasks = [i \in 1..Len(compiles) |-> "pending"],
              !.promise = IF compiles = <<>> THEN "resolved" ELSE "pending"]
    /\ UNCHANGED <<hostVars, mainVars, convVars, delegating, emitPathCall, patchCall, laterVars>>

\* The promise of one compile call settles: it rejects, or it resolves and
\* the callback writes the generated modules one after the other until a
\* write (or the patch before it) throws.
CompileSettles ==
    /\ generator.started
    /\ \E i \in 1..Len(generator.tasks) :
         /\ generator.tasks[i] = "pending"
         /\ \E writes \in {writesOf(callsOf(generator.log, "compile")[i])} :
              \E rejects \in BOOLEAN, written \in 0..Len(writes) :
                 /\ rejects => written = 0
                 /\ disk' = writeAll(disk, SubSeq(writes, 1, written))
                 /\ generator' =
                        [codegen_settled(generator, i, rejects \/ written < Len(writes))
                            EXCEPT !.written = @ \o SubSeq(writes, 1, written)]
    /\ UNCHANGED <<annotated, lastWrite, mainVars, convVars, delegating, emitPathCall,
                   patchCall, laterVars>>

InitCodegen ==
    /\ HostInit
    /\ annotated = {}
    /\ MainIdle
    /\ ConvIdle
    /\ LaterIdle
    /\ DelegatingIdle
    /\ EmitPathIdle
    /\ PatchIdle
    /\ \E program \in SourceFileLists :
         \E metadata \in [{program[i] : i \in 1..Len(program)} -> ModuleMetadatas] :
            generator = [NoGeneration EXCEPT !.program = program,
                                             !.metadata = metadata]

NextCodegen == Codegen \/ CompileSettles

SpecCodegen == InitCodegen /\ [][NextCodegen]_vars

\* every promise of a compile call settles, codegen() itself is called
SpecCodegenFair == SpecCodegen /\ WF_vars(NextCodegen)

(***************************************************************************)
(* Claims about CodeGenerator.codegen() (SpecCodegen, SpecCodegenFair).    *)
(***************************************************************************)
compiles == callsOf(generator.log, "compile")

allWritten(i) ==
    LET writes == writesOf(compiles[i])
    IN \A j \in 1..Len(writes) :
           [fileName |-> writes[j].fileName, data |-> writes[j].data] \in disk

noneWritten(i) ==
    LET writes == writesOf(compiles[i])
    IN \A j \in 1..Len(writes) : ~onDisk(disk, writes[j].fileName)

settled ==
    /\ generator.started
    /\ \A i \in 1..Len(generator.tasks) : generator.tasks[i] # "pending"

failedTasks == {i \in 1..Len(generator.tasks) : generator.tasks[i] = "failed"}

failureHandled ==
    /\ generator.promise = "resolved"
    /\ \A i \in 1..Len(generator.tasks) :
           generator.tasks[i] = "written" => allWritten(i)
    /\ failedTasks # {} =>
           /\ Len(generator.logged) = 1
           /\ \E i \in failedTasks : generator.logged[1] = compiles[i].fileUrl

\* C14: if the generation of one file fails (its compile promise rejects, or
\* writing one of its outputs throws), the failure is logged, the outputs of
\* every other file whose generation succeeds are still written, and the
\* promise of codegen() resolves: it never rejects.
C14_FailureLoggedOthersWritten ==
    /\ [](generator.promise # "rejected")
    /\ generator.started ~> (settled /\ failureHandled)

C14_Witness ==
    /\ settled
    /\ Len(generator.tasks) = 2
    /\ generator.tasks[1] = "failed"
    /\ generator.tasks[2] = "written"
    /\ generator.logged = <<S_A_TS>>
    /\ generator.promise = "resolved"
    /\ onDisk(disk, <<<<"g">>, <<"b">> \o DOT_NGFACTORY \o DOT_TS>>)

\* C15: the generation of one file is all-or-nothing: either every output
\* of the file is written or none is; a failure while patching or writing
\* one output never leaves a strict subset of the file's outputs written.
C15_AllOrNothing ==
    \A i \in 1..Len(generator.tasks) : allWritten(i) \/ noneWritten(i)

\* the descriptors of one kind in the units of the program that are not
\* generated files, read off the metadata
descriptors(kind) ==
    {StaticType(generator.program[i], generator.metadata[generator.program[i]].symbols[k].name) :
        <<i, k>> \in
            {x \in (1..Len(generator.program)) \X (1..3) :
                LET f == generator.program[x[1]]
                    m == generator.metadata[f]
                IN /\ ~GENERATED_FILES(f)
                   /\ m.found
                   /\ x[2] <= Len(m.symbols)
                   /\ m.symbols[x[2]].symbolic # "error"
                   /\ \E a \in 1..Len(m.symbols[x[2]].annotations) :
                          m.symbols[x[2]].annotations[a] = kind}}

elements(q) == {q[i] : i \in 1..Len(q)}

\* C16: module analysis runs exactly once per codegen() call, on the union
\* of the module descriptors of all the units that are not generated files;
\* it has returned before compile is called for any unit, and every compile
\* call is handed the analyzed graph it returned.
C16_AnalyzedOnceBeforeCompile ==
    generator.started =>
        LET log == generator.log
            analyses == {k \in 1..Len(log) : log[k].call = "analyzeModules"}
        IN /\ Cardinality(analyses) = 1
           /\ \A k \in analyses :
                /\ elements(log[k].ngModules) = descriptors("NgModule")
                /\ \A j \in 1..Len(log) :
                       log[j].call = "compile" =>
                           /\ k < j
                           /\ log[j].graph = analyzeModules(log[k].ngModules)

C16_Witness ==
    /\ generator.started
    /\ Len(compiles) = 2
    /\ Cardinality(descriptors("NgModule")) = 2
    /\ compiles[1].ngModules # compiles[2].ngModules

units == {f \in elements(generator.program) : ~GENERATED_FILES(f)}

compilesOf(f) == {i \in 1..Len(compiles) : compiles[i].fileUrl = f}

\* C17: compile is invoked for a unit if and only if the unit holds at least
\* one component descriptor.
C17_CompiledIffHasComponent ==
    generator.started =>
        \A f \in units :
            compilesOf(f) # {} <=>
                \E d \in descriptors("Component") : d.filePath = f

\* C17 (amended): compile is invoked exactly once for every unit of the
\* program that is not a generated file, with the component and the module
\* descriptors of that unit, whether or not it holds a component descriptor.
C17_CompiledOnceForEveryUnit ==
    generator.started =>
        /\ \A i \in 1..Len(compiles) : compiles[i].fileUrl \in units
        /\ \A f \in units :
             /\ Cardinality(compilesOf(f)) = 1
             /\ \A i \in compilesOf(f) :
                  /\ elements(compiles[i].components) =
                         {d \in descriptors("Component") : d.filePath = f}
                  /\ elements(compiles[i].ngModules) =
                         {d \in descriptors("NgModule") : d.filePath = f}

C17_Witness ==
    /\ generator.started
    /\ \E i \in 1..Len(compiles) :
         /\ compiles[i].components = <<>>
         /\ compiles[i].ngModules = <<>>
    /\ \E i \in 1..Len(compiles) : compiles[i].components # <<>>

\* C18: no unit whose path matches the generated-file pattern
\* (.ngfactory.ts, .css.ts, .css.shim.ts) is classified, contributes a
\* module descriptor to the analysis, or is passed to compile.
C18_GeneratedUnitsIgnored ==
    \A k \in 1..Len(generator.log) :
        LET e == generator.log[k]
        IN /\ e.call \in {"readFileMetadata", "compile"} =>
                  ~GENERATED_FILES(e.fileUrl)
           /\ \A d \in elements(e.ngModules) \cup elements(e.components) :
                  ~GENERATED_FILES(d.filePath)

C18_Witness ==
    /\ generator.started
    /\ \E f \in elements(generator.program) :
         /\ GENERATED_FILES(f)
         /\ generator.metadata[f].found
         /\ Len(generator.metadata[f].symbols) = 3


(***************************************************************************)
(* Claims about the patch of the generated source (SpecPatch).             *)
(***************************************************************************)
RECURSIVE indexOf(_, _)
indexOf(s, x) == IF s = <<>> \/ Head(s) = x THEN 1 ELSE 1 + indexOf(Tail(s), x)

\* the source with every cast ( <T> expression ) reduced to the expression
RECURSIVE eraseCasts(_, _)
eraseCasts(s, open) ==
    IF s = <<>> THEN <<>>
    ELSE IF startsWith(s, <<"(", "<">>)
    THEN eraseCasts(from(s, indexOf(s, ">") + 1), TRUE)
    ELSE IF open /\ Head(s) = ")" THEN eraseCasts(Tail(s), FALSE)
    ELSE <<Head(s)>> \o eraseCasts(Tail(s), open)

\* C29: the patch changes a generated source only when a cast <T>this.parent
\* (for the two-level rule <T>this.parent.parent) occurs in it; with the
\* cast, every chain this.parent.<member>.transform (resp.
\* this.parent.parent.<member>.transform) is rewritten so that the cast is
\* applied once, and nothing else changes: but for its casts, the patched
\* source is the source.
C29_PatchOnlyAppliesCast ==
    patchCall.called =>
        LET s == patchCall.source
            r == patchCall.result
        IN /\ ~fixMatch(s, THIS_PARENT).found => r = s
           /\ fixMatch(s, THIS_PARENT).found => errorMatches(r, THIS_PARENT) = <<>>
           /\ fixMatch(s, THIS_PARENT_PARENT).found =>
                  errorMatches(r, THIS_PARENT_PARENT) = <<>>
           /\ eraseCasts(r, FALSE) = eraseCasts(s, FALSE)

\* the generated modules the compile calls made so far resolve to
generated ==
    UNION {elements(compile(compiles[i].fileUrl, compiles[i].graph,
                            compiles[i].components, compiles[i].ngModules)) :
              i \in 1..Len(compiles)}

\* C21: every generated unit the Code Generator writes has a content that is
\* the fixed preamble followed by the (patched) source of a generated module
\* whose emit path is the name written, and reaches the disk through
\* writeFile of the host and no other way.
C21_PreambleThenSourceThroughHost ==
    /\ disk = {[fileName |-> w.fileName, data |-> w.data] :
                  w \in elements(generator.written)}
    /\ \A w \in elements(generator.written) :
          /\ startsWith(w.data, <<"PREAMBLE">>)
          /\ \E g \in generated :
                /\ w.fileName = calculateEmitPath(GeneratorOptions, g.moduleUrl)
                /\ from(w.data, 2) \in {g.source, patch(g.source)}

C21_Witness ==
    /\ Len(generator.written) = 2
    /\ \E w \in elements(generator.written) :
          \E g \in generated :
             /\ patch(g.source) # g.source
             /\ w.data = <<"PREAMBLE">> \o patch(g.source)


(***************************************************************************)
(* The Module Namer: pathToGoogModuleName of TsickleHost and of            *)
(* DecoratorDownlevelCompilerHost.  A string is a sequence of lexemes: a   *)
(* word of letters, or one of the characters / . - _ @ $ on its own, so    *)
(* that the regular expressions read on lexemes as they do on characters.  *)
(***************************************************************************)
Punctuation == {"/", ".", "-", "_", "@", "$"}

\* the segments of a path between its "/"
RECURSIVE split(_, _)
split(s, segment) ==
    IF s = <<>> THEN <<segment>>
    ELSE IF Head(s) = "/" THEN <<segment>> \o split(Tail(s), <<>>)
    ELSE split(Tail(s), Append(segment, Head(s)))

RECURSIVE joinSegments(_)
joinSegments(segments) ==
    IF segments = <<>> THEN <<>>
    ELSE IF Len(segments) = 1 THEN Head(segments)
    ELSE Head(segments) \o <<"/">> \o joinSegments(Tail(segments))

\* path.normalize on the segments of a relative path: "" and "." go, ".."
\* takes the segment before it away unless that is ".." or there is none
RECURSIVE normalizeSegments(_, _)
normalizeSegments(segments, kept) ==
    IF segments = <<>> THEN kept
    ELSE LET x == Head(segments)
         IN IF x = <<>> \/ x = <<".">>
            THEN normalizeSegments(Tail(segments), kept)
            ELSE IF x = PARENT /\ kept # <<>> /\ kept[Len(kept)] # PARENT
            THEN normalizeSegments(Tail(segments), DropLast(kept, 1))
            ELSE normalizeSegments(Tail(segments), Append(kept, x))

\* path.join(a, b) of two relative paths
posix_join(a, b) ==
    LET joined == IF a = <<>> THEN b ELSE IF b = <<>> THEN a ELSE a \o <<"/">> \o b
        path == joinSegments(normalizeSegments(split(joined, <<>>), <<>>))
        trailing == joined # <<>> /\ joined[Len(joined)] = "/"
    IN IF path = <<>>
       THEN IF trailing THEN <<".", "/">> ELSE <<".">>
       ELSE IF trailing THEN path \o <<"/">> ELSE path

\* path.dirname(p) of a relative path that does not end with "/"
posix_dirname(p) ==
    LET segments == split(p, <<>>)
    IN IF Len(segments) < 2 THEN <<".">> ELSE joinSegments(DropLast(segments, 1))

\* the match of /dist\/packages-dist\/([^\/]+)\/esm\/(.*)/ (esm is <<"esm">>)
\* or of /dist\/packages-closure\/([^\/]+)\/(.*)/ (esm is <<>>) at the start
\* of s
distMatchAt(s, packages, esm) ==
    LET head == <<"dist", "/", "packages", "-", packages, "/">>
        rest == from(s, Len(head) + 1)
        pkg == indexOf(rest, "/") - 1
        tail == IF esm = <<>> THEN <<"/">> ELSE <<"/">> \o esm \o <<"/">>
    IN IF startsWith(s, head) /\ pkg > 0 /\ startsWith(from(rest, pkg + 1), tail)
       THEN [found |-> TRUE, pkg |-> SubSeq(rest, 1, pkg),
             impt |-> from(rest, pkg + Len(tail) + 1)]
       ELSE [found |-> FALSE, pkg |-> <<>>, impt |-> <<>>]

\* importPath.replace(dist, (match, pkg, impt) => `@angular/${pkg}/${impt}`)
\* on the first match, the path itself when there is none
RECURSIVE replaceDist(_, _, _)
replaceDist(s, packages, esm) ==
    IF s = <<>> THEN <<>>
    ELSE LET m == distMatchAt(s, packages, esm)
         IN IF m.found
            THEN <<"@", "angular", "/">> \o m.pkg \o <<"/">> \o m.impt
            ELSE <<Head(s)>> \o replaceDist(Tail(s), packages, esm)

\* .replace(/\//g, '.').replace(/^[^a-zA-Z_$]/, '_')
\* .replace(/[^a-zA-Z0-9._$]/g, '_')
moduleNameOf(importPath) ==
    LET dotted == [i \in 1..Len(importPath) |->
                      IF importPath[i] = "/" THEN "." ELSE importPath[i]]
        first == IF dotted # <<>> /\ Head(dotted) \in {".", "-", "@"}
                 THEN <<"_">> \o Tail(dotted)
                 ELSE dotted
    IN [i \in 1..Len(first) |-> IF first[i] \in {"-", "@"} THEN "_" ELSE first[i]]

\* pathToGoogModuleName with the pattern of the distribution output left open
pathToGoogModuleName(context, importPath, packages, esm) ==
    LET stripped == IF EndsWith(importPath, <<".", "js">>)
                    THEN DropLast(importPath, 2) ELSE importPath
        resolved == IF stripped # <<>> /\ Head(stripped) = "."
                    THEN posix_join(posix_dirname(context), stripped)
                    ELSE stripped
        replaced == replaceDist(resolved, packages, esm)
        packaged == IF replaced # resolved
                    THEN IF EndsWith(replaced, <<"/", "index">>)
                         THEN DropLast(replaced, 2) ELSE replaced
                    ELSE resolved
    IN moduleNameOf(packaged)

TsickleHost_pathToGoogModuleName(context, importPath) ==
    pathToGoogModuleName(context, importPath, "dist", <<"esm">>)

DecoratorDownlevelCompilerHost_pathToGoogModuleName(context, importPath) ==
    pathToGoogModuleName(context, importPath, "closure", <<>>)

\* the project directory, which is the base path too, and the output directory
\* of the run of main() whose tsickleHost names the modules
projectDir == <<"/", "p">>
outputProjectName == <<"out">>

\* s.indexOf(t): where t first occurs in s, counted from 0, -1 when nowhere
RECURSIVE indexOfString(_, _)
indexOfString(s, t) ==
    IF startsWith(s, t) THEN 0
    ELSE IF s = <<>> THEN -1
    ELSE LET i == indexOfString(Tail(s), t) IN IF i = -1 THEN -1 ELSE i + 1

\* path.resolve(basePath, importPath) of a relative importPath
posix_resolve(basePath, importPath) ==
    <<"/">> \o joinSegments(normalizeSegments(
                 split(Tail(basePath) \o <<"/">> \o importPath, <<>>), <<>>))

\* importPath.replace(/((\/index)?(\.ts|\.d\.ts|\.js|\.jsx|\.tsx)$|\/index$)/, '')
stripIndexAndExtension(importPath) ==
    LET extension ==
            IF EndsWith(importPath, <<".", "d", ".", "ts">>) THEN 4
            ELSE IF \E e \in {"ts", "js", "jsx", "tsx"} : EndsWith(importPath, <<".", e>>)
            THEN 2 ELSE 0
        stem == DropLast(importPath, extension)
    IN IF EndsWith(stem, <<"/", "index">>) THEN DropLast(stem, 2) ELSE stem

\* pathToModuleName of the tsickleHost main() builds
tsickleHost_pathToModuleName(googModuleProjectName, context, importPath) ==
    IF googModuleProjectName = <<>> THEN <<>>
    ELSE
    LET stripped == stripIndexAndExtension(importPath)
        isRelativePath == stripped # <<>> /\ Head(stripped) = "."
        joined == IF isRelativePath
                  THEN posix_join(posix_dirname(context), stripped)
                  ELSE stripped
        absolutePath == IF joined # <<>> /\ Head(joined) = "/" THEN joined
                        ELSE posix_resolve(projectDir, joined)
        indexOfProjectDir == indexOfString(absolutePath, projectDir)
        indexOfOutputProjectDir == indexOfString(absolutePath, outputProjectName)
        named == IF context = <<>> \/ isRelativePath
                 THEN IF indexOfProjectDir > -1
                      THEN googModuleProjectName
                           \o from(absolutePath, indexOfProjectDir + Len(projectDir) + 1)
                      ELSE IF indexOfOutputProjectDir > -1
                      THEN googModuleProjectName
                           \o from(absolutePath,
                                   indexOfOutputProjectDir + Len(outputProjectName) + 1)
                      ELSE joined
                 ELSE joined
    IN moduleNameOf(named)

Namers == {"TsickleHost", "DecoratorDownlevelCompilerHost", "tsickleHost"}

SOME_FILE == <<"some", "-", "file">>
SOME_FILE_TS == <<"some", "-", "file", ".", "ts">>
OTHER_FILE == <<".", "/", "other", "_", "file">>
PACKAGES_DIST == <<"dist", "/", "packages", "-", "dist", "/", "core", "/", "esm">>
PACKAGES_CLOSURE == <<"dist", "/", "packages", "-", "closure", "/", "core">>
PLACE == <<"/", "place">>
TESTING == <<"/", "testing">>
INDEX == <<"/", "index">>

Contexts == {<<>>, SOME_FILE, SOME_FILE_TS, <<"a", "/", "b", ".", "ts">>}

\* the paths under a distribution output
Packaged == {PLACE \o TESTING, PLACE, <<>>}

ImportPaths ==
    {<<>>, <<".", "js">>, OTHER_FILE, <<".", ".", "/", "other", ".", "js">>,
     <<"@", "angular", "/", "core">>, <<"lib", "/", "index", ".", "ts">>,
     <<".", "/">> \o PACKAGES_DIST \o PLACE \o INDEX}
    \cup {d \o q : d \in {PACKAGES_DIST, PACKAGES_CLOSURE}, q \in Packaged}
    \cup {d \o q \o INDEX : d \in {PACKAGES_DIST, PACKAGES_CLOSURE}, q \in Packaged}

namerOf(host, googModuleProjectName, context, importPath) ==
    CASE host = "TsickleHost" -> TsickleHost_pathToGoogModuleName(context, importPath)
      [] host = "DecoratorDownlevelCompilerHost" ->
            DecoratorDownlevelCompilerHost_pathToGoogModuleName(context, importPath)
      [] host = "tsickleHost" ->
            tsickleHost_pathToModuleName(googModuleProjectName, context, importPath)

PathToModuleName ==
    /\ ~namerCall.called
    /\ namerCall.host \in Namers
    /\ namerCall' = [namerCall EXCEPT
                        !.called = TRUE,
                        !.result = namerOf(namerCall.host, namerCall.googModuleProjectName,
                                           namerCall.context, namerCall.importPath)]
    /\ UNCHANGED <<hostVars, mainVars, convVars, delegating, generator, emitPathCall,
                   patchCall, flatModule, loaderCall, factory, renderer>>

InitNamer ==
    /\ HostInit
    /\ annotated = {}
    /\ MainIdle
    /\ ConvIdle
    /\ DelegatingIdle
    /\ GeneratorIdle
    /\ EmitPathIdle
    /\ PatchIdle
    /\ FlatModuleIdle
    /\ LoaderIdle
    /\ FactoryIdle
    /\ RendererIdle
    /\ \E host \in Namers, context \in Contexts, importPath \in ImportPaths :
       \E project \in IF host = "tsickleHost" THEN {<<>>, <<"proj">>} ELSE {<<>>} :
         namerCall = [called |-> FALSE, host |-> host, googModuleProjectName |-> project,
                      context |-> context, importPath |-> importPath, result |-> <<>>]

NextNamer == PathToModuleName

SpecNamer == InitNamer /\ [][NextNamer]_vars

\* a word of letters: no lexeme of punctuation
isWord(x) == x \notin Punctuation

\* s matches [A-Za-z_$][A-Za-z0-9._$]*
isIdentifier(s) ==
    /\ s # <<>>
    /\ isWord(Head(s)) \/ Head(s) \in {"_", "$"}
    /\ \A i \in 1..Len(s) : isWord(s[i]) \/ s[i] \in {".", "_", "$"}

\* C22: whatever the context path and the import specifier, an empty specifier
\* and one that is empty once its extension is stripped included, the Module
\* Namer returns a non-empty string matching [A-Za-z_$][A-Za-z0-9._$]*.
C22_NamerTotalAndValid ==
    namerCall.called => isIdentifier(namerCall.result)

\* C23: for the context "some-file" and the specifier
\* "dist/packages-dist/core/esm/place/testing" the Module Namer returns
\* _angular$core$place$testing.
C23_PackagedTestingName ==
    (/\ namerCall.called
     /\ namerCall.host \in {"TsickleHost", "DecoratorDownlevelCompilerHost"}
     /\ namerCall.context \in {SOME_FILE, SOME_FILE_TS}
     /\ namerCall.importPath = PACKAGES_DIST \o PLACE \o TESTING)
    => namerCall.result = <<"_", "angular", "$", "core", "$", "place", "$", "testing">>

\* C24: the relative specifier "./other_file" is resolved against the directory
\* of the context path before it is sanitised and yields other__file, for the
\* contexts "some-file", "some-file.ts" and the empty context alike.
C24_RelativeSpecifierName ==
    (/\ namerCall.called
     /\ namerCall.host \in {"TsickleHost", "DecoratorDownlevelCompilerHost"}
     /\ namerCall.context \in {SOME_FILE, SOME_FILE_TS, <<>>}
     /\ namerCall.importPath = OTHER_FILE)
    => namerCall.result = <<"other", "_", "_", "file">>

\* C25: a specifier P/index whose resolved path matches the pattern of the
\* distribution output is rewritten to the package-qualified form without its
\* /index segment, so it is named as the specifier P is; and
\* dist/packages-dist/core/esm/place/index is named _angular$core$place.
C25_IndexDropped ==
    (/\ namerCall.called
     /\ namerCall.host \in {"TsickleHost", "DecoratorDownlevelCompilerHost"}
     /\ EndsWith(namerCall.importPath, INDEX))
    => LET P == DropLast(namerCall.importPath, 2)
           matches == namerCall.importPath \in
                         {d \o q \o INDEX : d \in {IF namerCall.host = "TsickleHost"
                                                   THEN PACKAGES_DIST
                                                   ELSE PACKAGES_CLOSURE},
                                            q \in Packaged}
       IN /\ matches => namerCall.result = namerOf(namerCall.host, <<>>, namerCall.context, P)
          /\ namerCall.importPath = PACKAGES_DIST \o PLACE \o INDEX
                => namerCall.result = <<"_", "angular", "$", "core", "$", "place">>


(***************************************************************************)
(* The flat module index in main(): main.ts 61-90, and the Programs made   *)
(* of the file set afterwards.  File names are character sequences.        *)
(***************************************************************************)
MaxFileNames == 3

S_A_DOT_TS == <<"s", "/", "a">> \o DOT_TS
FlatFiles == {A_TS, B_TS, A_D_TS, S_A_DOT_TS}

INDEX_JS == <<"i", "n", "d", "e", "x">> \o DOT_JS
FlatModuleOutFiles == {<<>>, INDEX_JS, DropLast(INDEX_JS, 3)}

\* parsed.fileNames.filter(f => !DTS.test(f))
RECURSIVE notDts(_)
notDts(fileNames) ==
    IF fileNames = <<>> THEN <<>>
    ELSE IF DTS(Head(fileNames)) THEN notDts(Tail(fileNames))
    ELSE <<Head(fileNames)>> \o notDts(Tail(fileNames))

\* ngOptions.flatModuleOutFile.replace(JS_EXT, '.ts'), JS_EXT = /(\.js|)$/
replaceJsExt(outFile) ==
    IF JS(outFile) THEN DropLast(outFile, Len(DOT_JS)) \o DOT_TS ELSE outFile \o DOT_TS

\* ngOptions.flatModuleOutFile && !ngOptions.skipMetadataEmit
flatModuleConfigured(m) == m.flatModuleOutFile # <<>> /\ ~m.skipMetadataEmit

\* path.join(path.dirname(indexModule), flatModuleOutFile.replace(JS_EXT, '.ts'))
syntheticName(file, outFile) ==
    posix_join(posix_dirname(DropLast(file, Len(DOT_TS))), replaceJsExt(outFile))

\* the block that lets any number of .ts files through but none
flatModuleIndex_first(m, bundles) ==
    LET files == notDts(m.fileNames)
    IN IF ~flatModuleConfigured(m) THEN [m EXCEPT !.pc = "createProgram"]
       ELSE IF Len(files) < 1
       THEN [m EXCEPT !.pc = "rejected", !.promise = "rejected", !.reported = TRUE]
       ELSE [m EXCEPT !.pc = "createProgram",
                      !.bundled = Append(@, DropLast(files[1], Len(DOT_TS))),
                      !.host = <<syntheticName(files[1], m.flatModuleOutFile)>>,
                      !.fileNames = Append(@, syntheticName(files[1], m.flatModuleOutFile))]

\* the block without its last statement, parsed.fileNames.push(name)
flatModuleIndex_noPush(m, bundles) ==
    LET files == notDts(m.fileNames)
    IN IF ~flatModuleConfigured(m) THEN [m EXCEPT !.pc = "createProgram"]
       ELSE IF Len(files) # 1
       THEN [m EXCEPT !.pc = "rejected", !.promise = "rejected", !.reported = TRUE]
       ELSE [m EXCEPT !.pc = "createProgram",
                      !.bundled = Append(@, DropLast(files[1], Len(DOT_TS))),
                      !.host = <<syntheticName(files[1], m.flatModuleOutFile)>>]

\* main.ts 62-90: with the flat module configured, the one .ts file is bundled,
\* the host wrapped in a SyntheticIndexHost serving the index, and the name of
\* the index pushed to parsed.fileNames; check() throws on the error, a throw
\* of the bundler (bundles = FALSE) rejects like it
flatModuleIndex(m, bundles) ==
    LET files == notDts(m.fileNames)
    IN IF ~flatModuleConfigured(m) THEN [m EXCEPT !.pc = "createProgram"]
       ELSE IF Len(files) # 1
       THEN IF check(TRUE) = "throw"
            THEN [m EXCEPT !.pc = "rejected", !.promise = "rejected", !.reported = TRUE]
            ELSE [m EXCEPT !.pc = "createProgram", !.reported = TRUE]
       ELSE IF ~bundles
       THEN [m EXCEPT !.pc = "rejected", !.promise = "rejected",
                      !.bundled = Append(@, DropLast(files[1], Len(DOT_TS)))]
       ELSE [m EXCEPT !.pc = "createProgram",
                      !.bundled = Append(@, DropLast(files[1], Len(DOT_TS))),
                      !.host = <<syntheticName(files[1], m.flatModuleOutFile)>>,
                      !.fileNames = Append(@, syntheticName(files[1], m.flatModuleOutFile))]

\* the files a host serves: those of the file system, which are the files of
\* the configuration, and the index a SyntheticIndexHost holds
served(m) == elements(m.files) \cup elements(m.host)

\* ts.createProgram(parsed.fileNames, parsed.options, host): the root names of
\* the Program and the source files its host gave it
flatProgram(m) ==
    [rootNames |-> m.fileNames,
     sourceFiles |-> {f \in elements(m.fileNames) : f \in served(m)}]

FlatModuleIndex ==
    /\ flatModule.pc = "main"
    /\ \E bundles \in BOOLEAN : flatModule' = flatModuleIndex(flatModule, bundles)
    /\ UNCHANGED <<hostVars, mainVars, convVars, delegating, generator, emitPathCall,
                   patchCall, namerCall, loaderCall, factory, renderer>>

\* main.ts 142-148: the first Program and the check of its options diagnostics
FlatCreateProgram ==
    /\ flatModule.pc = "createProgram"
    /\ \E errors \in BOOLEAN :
         flatModule' =
            IF check(errors) = "throw"
            THEN [flatModule EXCEPT !.pc = "rejected", !.promise = "rejected",
                                    !.programs = Append(@, flatProgram(flatModule))]
            ELSE [flatModule EXCEPT !.pc = "codegen", !.promise = "pending",
                                    !.programs = Append(@, flatProgram(flatModule))]
    /\ UNCHANGED <<hostVars, mainVars, convVars, delegating, generator, emitPathCall,
                   patchCall, namerCall, loaderCall, factory, renderer>>

\* main.ts 155-169: after codegen, the Program with the generated code and its
\* type check
FlatTypeCheck ==
    /\ flatModule.pc = "codegen"
    /\ \E errors \in BOOLEAN :
         flatModule' =
            IF check(errors) = "throw"
            THEN [flatModule EXCEPT !.pc = "rejected", !.promise = "rejected",
                                    !.programs = Append(@, flatProgram(flatModule))]
            ELSE [flatModule EXCEPT !.pc = "emit",
                                    !.programs = Append(@, flatProgram(flatModule)),
                                    !.typeChecked = flatProgram(flatModule).sourceFiles]
    /\ UNCHANGED <<hostVars, mainVars, convVars, delegating, generator, emitPathCall,
                   patchCall, namerCall, loaderCall, factory, renderer>>

\* main.ts 189-196: tsc.emit of the Programs, every source file that is no
\* declaration file emitted
FlatEmit ==
    /\ flatModule.pc = "emit"
    /\ flatModule' =
          [flatModule EXCEPT
              !.pc = "resolved", !.promise = "resolved",
              !.emitted = {f \in flatModule.programs[Len(flatModule.programs)].sourceFiles :
                              ~DTS(f)}]
    /\ UNCHANGED <<hostVars, mainVars, convVars, delegating, generator, emitPathCall,
                   patchCall, namerCall, loaderCall, factory, renderer>>

\* sequences without repetition
distinct(q) == \A i, j \in 1..Len(q) : q[i] = q[j] => i = j

InitFlatModule ==
    /\ HostInit
    /\ annotated = {}
    /\ MainIdle
    /\ ConvIdle
    /\ DelegatingIdle
    /\ GeneratorIdle
    /\ EmitPathIdle
    /\ PatchIdle
    /\ NamerIdle
    /\ LoaderIdle
    /\ FactoryIdle
    /\ RendererIdle
    /\ \E outFile \in FlatModuleOutFiles, skip \in BOOLEAN,
          fileNames \in {q \in SeqsUpTo(FlatFiles, MaxFileNames) : distinct(q)} :
         flatModule = [pc |-> "main", flatModuleOutFile |-> outFile,
                       skipMetadataEmit |-> skip, files |-> fileNames,
                       fileNames |-> fileNames, host |-> <<>>, bundled |-> <<>>,
                       reported |-> FALSE, programs |-> <<>>, typeChecked |-> {},
                       emitted |-> {}, promise |-> "pending"]

NextFlatModule == FlatModuleIndex \/ FlatCreateProgram \/ FlatTypeCheck \/ FlatEmit

SpecFlatModule == InitFlatModule /\ [][NextFlatModule]_vars

\* the name of the synthetic index of a run with the flat module configured
\* and one .ts file
indexOfRun(m) == syntheticName(notDts(m.files)[1], m.flatModuleOutFile)

\* C26: with the flat module configured, every Program main creates has the
\* synthetic index among its root names and gets it from the host, so that
\* the index is type-checked and emitted with the other source files; without
\* it the file set stays as the configuration gave it.
C26_IndexInFileSetBeforeFirstProgram ==
    LET m == flatModule
    IN /\ flatModuleConfigured(m) =>
            /\ \A i \in 1..Len(m.programs) :
                  /\ indexOfRun(m) \in elements(m.programs[i].rootNames)
                  /\ indexOfRun(m) \in m.programs[i].sourceFiles
            /\ m.pc \in {"emit", "resolved"} => indexOfRun(m) \in m.typeChecked
            /\ m.pc = "resolved" => indexOfRun(m) \in m.emitted
       /\ ~flatModuleConfigured(m) =>
            /\ m.fileNames = m.files
            /\ \A i \in 1..Len(m.programs) : m.programs[i].rootNames = m.files

C26_Witness ==
    /\ flatModuleConfigured(flatModule)
    /\ flatModule.pc = "resolved"
    /\ Len(flatModule.programs) = 2
    /\ Len(flatModule.files) = 2
    /\ flatModule.emitted = elements(notDts(flatModule.files))
                               \cup {<<"s", "/">> \o DropLast(INDEX_JS, 3) \o DOT_TS}

\* C27: with the flat module configured and not exactly one file that is no
\* declaration file in the file list, main reports the error and does no
\* bundling, creates no Program and emits nothing.
C27_OneAndOnlyOneTsFile ==
    LET m == flatModule
    IN (flatModuleConfigured(m) /\ Len(notDts(m.files)) # 1 /\ m.pc \notin {"none", "main"})
       => /\ m.reported
          /\ m.promise = "rejected"
          /\ m.bundled = <<>>
          /\ m.host = <<>>
          /\ m.fileNames = m.files
          /\ m.programs = <<>>
          /\ m.typeChecked = {}
          /\ m.emitted = {}

C27_Witness ==
    /\ flatModuleConfigured(flatModule)
    /\ Len(notDts(flatModule.files)) = 2
    /\ Len(flatModule.files) = 3
    /\ flatModule.pc = "rejected"
    /\ flatModule.reported


(***************************************************************************)
(* The default resource loader of CodeGenerator.create.  A host is what    *)
(* its file system holds under each url.                                   *)
(***************************************************************************)
MaxUrls == 3

Urls == 1..MaxUrls
Contents == {"template", "styles"}
LoaderHosts == [Urls -> Contents \cup {"absent"}]

\* compilerHost.fileExists(s) and compilerHost.readFile(s)
fileExists(files, s) == files[s] # "absent"
readFile(files, s) == files[s]

\* a loader that reads before it asks whether the file exists
get_readFirst(files, s) ==
    IF ~fileExists(files, s)
    THEN [outcome |-> "threw", value |-> "none",
          error |-> <<"Compilation failed. Resource file not found: ", s>>,
          reads |-> <<s>>]
    ELSE [outcome |-> "resolved", value |-> readFile(files, s), error |-> <<>>,
          reads |-> <<s>>]

\* resourceLoader.get(s): throws when the host has no such file, and returns
\* Promise.resolve(compilerHost.readFile(s)) when it has
get(files, s) ==
    IF ~fileExists(files, s)
    THEN [outcome |-> "threw", value |-> "none",
          error |-> <<"Compilation failed. Resource file not found: ", s>>,
          reads |-> <<>>]
    ELSE [outcome |-> "resolved", value |-> readFile(files, s), error |-> <<>>,
          reads |-> <<s>>]

Get ==
    /\ ~loaderCall.called
    /\ loaderCall.url \in Urls
    /\ LET r == get(loaderCall.files, loaderCall.url)
       IN loaderCall' = [loaderCall EXCEPT !.called = TRUE, !.outcome = r.outcome,
                                           !.value = r.value, !.error = r.error,
                                           !.reads = r.reads]
    /\ UNCHANGED <<hostVars, mainVars, convVars, delegating, generator, emitPathCall,
                   patchCall, namerCall, flatModule, factory, renderer>>

InitLoader ==
    /\ HostInit
    /\ annotated = {}
    /\ MainIdle
    /\ ConvIdle
    /\ DelegatingIdle
    /\ GeneratorIdle
    /\ EmitPathIdle
    /\ PatchIdle
    /\ NamerIdle
    /\ FlatModuleIdle
    /\ FactoryIdle
    /\ RendererIdle
    /\ \E files \in LoaderHosts, url \in Urls :
         loaderCall = [called |-> FALSE, files |-> files, url |-> url, outcome |-> "none",
                       value |-> "none", error |-> <<>>, reads |-> <<>>]

NextLoader == Get

SpecLoader == InitLoader /\ [][NextLoader]_vars

\* C28: get(url) of the default resource loader resolves to what the host holds
\* under url when the host has the file; when it has not, get fails with the
\* error 'Resource file not found' naming url and has not read the file.
C28_ResolvesOrNotFound ==
    loaderCall.called =>
        LET files == loaderCall.files
            url == loaderCall.url
        IN /\ files[url] # "absent" =>
                 /\ loaderCall.outcome = "resolved"
                 /\ loaderCall.value = files[url]
           /\ files[url] = "absent" =>
                 /\ loaderCall.outcome = "threw"
                 /\ loaderCall.error = <<"Compilation failed. Resource file not found: ", url>>
                 /\ loaderCall.reads = <<>>

C28_Witness ==
    /\ loaderCall.called
    /\ loaderCall.files[loaderCall.url] = "absent"
    /\ loaderCall.outcome = "threw"
    /\ \E other \in Urls : loaderCall.files[other] = "styles"


(***************************************************************************)
(* AnimationRendererFactory: the microtask id, the buffer of animation     *)
(* callbacks and its flush.  A callback is a number; what it does when it  *)
(* is invoked is fixed by `listeners': it returns, it throws, or it makes  *)
(* the engine fire the event of the next callback, whose listener passes   *)
(* that callback to scheduleListenerCallback.                              *)
(***************************************************************************)
MaxCallbacks == 3
MaxMicrotaskId == 2

Callbacks == 1..MaxCallbacks

Events == {NoEvent} \cup {[hasData |-> TRUE, _data |-> d] : d \in 0..MaxMicrotaskId}

Behaviours ==
    {[does |-> d, event |-> NoEvent] : d \in {"returns", "throws"}}
    \cup {[does |-> "schedules", event |-> e] :
             e \in {NoEvent, [hasData |-> TRUE, _data |-> 1]}}

\* const countId = (event as any)['_data'] || -1
countIdOf(event) == IF event.hasData /\ event._data # 0 THEN event._data ELSE -1

RECURSIVE invoke(_, _)
RECURSIVE scheduleListenerCallback(_, _, _)
RECURSIVE listenCallback(_, _, _)

\* fn(data): the callback runs; the result is the factory afterwards and
\* whether an exception left the call
invoke(f, fn) ==
    LET g == [f EXCEPT !.invoked = Append(@, fn)]
        listener == f.listeners[fn]
    IN CASE listener.does = "returns" -> [factory |-> g, threw |-> FALSE]
         [] listener.does = "throws" -> [factory |-> g, threw |-> TRUE]
         [] listener.does = "schedules" -> listenCallback(g, listener.event, fn + 1)

\* what a scheduleListenerCallback call that ended with r was given and what
\* holds when it ends: fn was invoked, fn is in the buffer
callEnded(f, count, fn, r) ==
    [factory |-> [r.factory EXCEPT !.step =
                     Append(@, [fn |-> fn, count |-> count,
                                _microtaskId |-> f._microtaskId,
                                invoked |-> fn \in elements(r.factory.invoked),
                                buffered |-> fn \in elements(
                                                r.factory._animationCallbacksBuffer)])],
     threw |-> r.threw]

\* scheduleListenerCallback that defers only the counts that are not yet the
\* microtask id
scheduleListenerCallback_upTo(f, count, fn) ==
    LET g == [f EXCEPT !.passed = Append(@, fn)]
    IN CHOOSE ended \in
          {callEnded(f, count, fn, r) :
             r \in {IF count >= 0 /\ count <= g._microtaskId
                    THEN invoke(g, fn)
                    ELSE [factory |->
                             [g EXCEPT !.flushes = IF Len(g._animationCallbacksBuffer) = 0
                                                   THEN @ + 1 ELSE @,
                                       !._animationCallbacksBuffer = Append(@, fn)],
                          threw |-> FALSE]}} : TRUE

\* scheduleListenerCallback(count, fn, data)
scheduleListenerCallback(f, count, fn) ==
    LET g == [f EXCEPT !.passed = Append(@, fn)]
    IN CHOOSE ended \in
          {callEnded(f, count, fn, r) :
             r \in {IF count >= 0 /\ count < g._microtaskId
                    THEN invoke(g, fn)
                    ELSE [factory |->
                             [g EXCEPT !.flushes = IF Len(g._animationCallbacksBuffer) = 0
                                                   THEN @ + 1 ELSE @,
                                       !._animationCallbacksBuffer = Append(@, fn)],
                          threw |-> FALSE]}} : TRUE

\* the listener AnimationRenderer.listen hands to the engine: event => {
\* const countId = event['_data'] || -1; scheduleListenerCallback(countId, ...) }
listenCallback(f, event, fn) ==
    scheduleListenerCallback([f EXCEPT !.fired = Append(@, [fn |-> fn, event |-> event])],
                             countIdOf(event), fn)

\* the callback of Promise.resolve(null).then: forEach visits the n tuples the
\* buffer held when it began, then the buffer is replaced by []; an exception
\* of a callback ends the microtask there
RECURSIVE flushFrom(_, _, _)
flushFrom(f, i, n) ==
    IF i > n
    THEN [f EXCEPT !._animationCallbacksBuffer = <<>>]
    ELSE CHOOSE flushed \in
            {IF r.threw THEN r.factory ELSE flushFrom(r.factory, i + 1, n) :
                r \in {invoke(f, f._animationCallbacksBuffer[i])}} : TRUE

\* the callbacks the engine may still fire the listener of
schedulable(f) ==
    {c \in Callbacks : /\ c \notin elements(f.passed)
                       /\ c = 1 \/ f.listeners[c - 1].does # "schedules"}

\* the engine fires an animation event whose listener AnimationRenderer.listen
\* registered
Listen ==
    /\ Len(factory.listeners) = MaxCallbacks
    /\ \E c \in schedulable(factory), event \in Events :
         /\ event.hasData => event._data <= factory._microtaskId
         /\ factory' = listenCallback([factory EXCEPT !.step = <<>>, !.fired = <<>>],
                                      event, c).factory
    /\ UNCHANGED <<hostVars, mainVars, convVars, delegating, generator, emitPathCall,
                   patchCall, namerCall, flatModule, loaderCall,
                   renderer>>

\* end(): the task that increments the microtask id is scheduled
End ==
    /\ Len(factory.listeners) = MaxCallbacks
    /\ factory._microtaskId + factory.countTasks < MaxMicrotaskId
    /\ factory' = [factory EXCEPT !.countTasks = @ + 1, !.step = <<>>, !.fired = <<>>]
    /\ UNCHANGED <<hostVars, mainVars, convVars, delegating, generator, emitPathCall,
                   patchCall, namerCall, flatModule, loaderCall,
                   renderer>>

\* () => this._microtaskId++
CountTask ==
    /\ factory.countTasks > 0
    /\ factory' = [factory EXCEPT !.countTasks = @ - 1, !._microtaskId = @ + 1,
                                   !.step = <<>>, !.fired = <<>>]
    /\ UNCHANGED <<hostVars, mainVars, convVars, delegating, generator, emitPathCall,
                   patchCall, namerCall, flatModule, loaderCall,
                   renderer>>

\* the microtask of the promise runs
Flush ==
    /\ factory.flushes > 0
    /\ factory' = flushFrom([factory EXCEPT !.flushes = @ - 1, !.step = <<>>,
                                             !.fired = <<>>],
                            1, Len(factory._animationCallbacksBuffer))
    /\ UNCHANGED <<hostVars, mainVars, convVars, delegating, generator, emitPathCall,
                   patchCall, namerCall, flatModule, loaderCall,
                   renderer>>

InitAnimation ==
    /\ HostInit
    /\ annotated = {}
    /\ MainIdle
    /\ ConvIdle
    /\ DelegatingIdle
    /\ GeneratorIdle
    /\ EmitPathIdle
    /\ PatchIdle
    /\ NamerIdle
    /\ FlatModuleIdle
    /\ LoaderIdle
    /\ RendererIdle
    /\ \E listeners \in [Callbacks -> Behaviours] :
         /\ listeners[MaxCallbacks].does # "schedules"
         /\ factory = [NewFactory EXCEPT !.listeners = listeners]

NextAnimation == Listen \/ End \/ CountTask \/ Flush

SpecAnimation == InitAnimation /\ [][NextAnimation]_vars

\* a microtask that is scheduled runs
SpecAnimationFair == SpecAnimation /\ WF_vars(CountTask) /\ WF_vars(Flush)

\* how often the callback was invoked
timesInvoked(c) == Cardinality({i \in 1..Len(factory.invoked) : factory.invoked[i] = c})

\* C30: every callback passed to scheduleListenerCallback is invoked in the
\* end, and once only, be it at once or by a later flush, also when it was
\* passed by a callback that runs inside a flush of the buffer.
C30_EveryCallbackInvokedOnce ==
    /\ [](\A c \in Callbacks : timesInvoked(c) <= 1)
    /\ \A c \in Callbacks : (c \in elements(factory.passed)) ~> (timesInvoked(c) = 1)

\* C31: whenever the buffer of animation callbacks is not empty, exactly one
\* flush microtask is pending, also after a buffered callback has thrown
\* during a flush.
C31_BufferedImpliesFlushPending ==
    Len(factory._animationCallbacksBuffer) > 0 => factory.flushes = 1

\* C32: scheduleListenerCallback(count, fn, data) has invoked fn when it
\* returns if and only if 0 <= count < the microtask id of the factory at the
\* call; otherwise fn is in the buffer and was not invoked.  The listener of
\* AnimationRenderer.listen turns an event without _data, or with _data 0,
\* into the count -1, so the callback of such an event is always deferred.
C32_ImmediateIffCountBelowMicrotaskId ==
    /\ \A k \in 1..Len(factory.step) :
          LET call == factory.step[k]
              immediate == call.count >= 0 /\ call.count < call._microtaskId
          IN /\ call.invoked <=> immediate
             /\ call.buffered <=> ~immediate
    /\ \A k \in 1..Len(factory.fired) :
          LET e == factory.fired[k]
          IN (~e.event.hasData \/ e.event._data = 0) =>
                \E j \in 1..Len(factory.step) :
                    /\ factory.step[j].fn = e.fn
                    /\ factory.step[j].count = -1
                    /\ ~factory.step[j].invoked

C32_Witness ==
    /\ Len(factory.step) = 2
    /\ factory.step[1].count = -1 /\ ~factory.step[1].invoked /\ factory.step[1].buffered
    /\ factory.step[2].count = 1 /\ factory.step[2].invoked /\ factory.step[2]._microtaskId = 2

\* the callbacks invoked by the step
invokedByStep == SubSeq(factory.invoked', Len(factory.invoked) + 1, Len(factory.invoked'))

\* C33: a flush invokes the callbacks the buffer held when it began, all of
\* them and in the order in which they were passed, and leaves the buffer
\* empty.
C33_FlushRunsBufferInOrder ==
    [][factory'.flushes < factory.flushes =>
          /\ SelectSeq(invokedByStep,
                       LAMBDA c : c \in elements(factory._animationCallbacksBuffer))
                = factory._animationCallbacksBuffer
          /\ factory'._animationCallbacksBuffer = <<>>]_vars


(***************************************************************************)
(* AnimationRendererFactory.createRenderer.  A renderer is named by its    *)
(* place in the list of the renderers the factory constructed; a namespace *)
(* id is a sequence of lexemes, "-" and every digit being one.             *)
(***************************************************************************)
MaxRenderers == 3

\* the renderers the delegate factory hands out
Delegates == {"d1", "d2"}

NoType == [defined |-> FALSE, id |-> <<>>, data |-> "undefined"]

\* type.data is undefined, has no animation, or has the triggers
RendererTypes ==
    {NoType}
    \cup {[defined |-> TRUE, id |-> <<"c">>, data |-> d] :
             d \in {"undefined", "no animation", "animation"}}
    \cup {[defined |-> TRUE, id |-> <<"c", "-", "1">>, data |-> "animation"]}

\* type.data['animation'] of the types that have it
animationTriggers(type) == IF type.id = <<"c">> THEN <<"t", "u">> ELSE <<>>

Digits == <<"0", "1", "2", "3", "4", "5", "6", "7", "8", "9">>

\* the decimal digits string concatenation makes of a number
RECURSIVE toString(_)
toString(n) ==
    IF n < 10 THEN <<Digits[n + 1]>> ELSE toString(n \div 10) \o <<Digits[(n % 10) + 1]>>

\* !hostElement || !type || !type.data || !type.data['animation']
withoutAnimation(hostElement, type) ==
    \/ ~hostElement
    \/ ~type.defined
    \/ type.data \in {"undefined", "no animation"}

\* createRenderer that constructs a BaseAnimationRenderer on every call
createRenderer_noCache(f, hostElement, type, theDelegate) ==
    IF withoutAnimation(hostElement, type)
    THEN [f EXCEPT
            !.renderers = Append(@, [kind |-> "BaseAnimationRenderer",
                                     namespaceId |-> <<>>, delegate |-> theDelegate]),
            !._rendererCache = {e \in @ : e.delegate # theDelegate}
                                  \cup {[delegate |-> theDelegate,
                                         renderer |-> Len(f.renderers) + 1]},
            !.returned = [base |-> TRUE, delegate |-> theDelegate,
                          renderer |-> Len(f.renderers) + 1]]
    ELSE LET namespaceId == type.id \o <<"-">> \o toString(f._currentId)
         IN [f EXCEPT
                !._currentId = @ + 1,
                !.registered = Append(@, namespaceId),
                !.triggers = @ \o [i \in 1..Len(animationTriggers(type)) |->
                                      <<namespaceId, animationTriggers(type)[i]>>],
                !.renderers = Append(@, [kind |-> "AnimationRenderer",
                                         namespaceId |-> namespaceId,
                                         delegate |-> theDelegate]),
                !.returned = [base |-> FALSE, delegate |-> theDelegate,
                              renderer |-> Len(f.renderers) + 1]]

\* createRenderer that leaves _currentId as it is
createRenderer_sameId(f, hostElement, type, theDelegate) ==
    IF withoutAnimation(hostElement, type)
    THEN IF \E e \in f._rendererCache : e.delegate = theDelegate
         THEN [f EXCEPT
                 !.returned = [base |-> TRUE, delegate |-> theDelegate,
                               renderer |-> (CHOOSE e \in f._rendererCache :
                                                e.delegate = theDelegate).renderer]]
         ELSE [f EXCEPT
                 !.renderers = Append(@, [kind |-> "BaseAnimationRenderer",
                                          namespaceId |-> <<>>, delegate |-> theDelegate]),
                 !._rendererCache = @ \cup {[delegate |-> theDelegate,
                                             renderer |-> Len(f.renderers) + 1]},
                 !.returned = [base |-> TRUE, delegate |-> theDelegate,
                               renderer |-> Len(f.renderers) + 1]]
    ELSE LET namespaceId == type.id \o <<"-">> \o toString(f._currentId)
         IN [f EXCEPT
                !.registered = Append(@, namespaceId),
                !.triggers = @ \o [i \in 1..Len(animationTriggers(type)) |->
                                      <<namespaceId, animationTriggers(type)[i]>>],
                !.renderers = Append(@, [kind |-> "AnimationRenderer",
                                         namespaceId |-> namespaceId,
                                         delegate |-> theDelegate]),
                !.returned = [base |-> FALSE, delegate |-> theDelegate,
                              renderer |-> Len(f.renderers) + 1]]

\* createRenderer(hostElement, type), theDelegate being the renderer
\* this.delegate.createRenderer(hostElement, type) returned
createRenderer(f, hostElement, type, theDelegate) ==
    IF withoutAnimation(hostElement, type)
    THEN IF \E e \in f._rendererCache : e.delegate = theDelegate
         THEN [f EXCEPT
                 !.returned = [base |-> TRUE, delegate |-> theDelegate,
                               renderer |-> (CHOOSE e \in f._rendererCache :
                                                e.delegate = theDelegate).renderer]]
         ELSE [f EXCEPT
                 !.renderers = Append(@, [kind |-> "BaseAnimationRenderer",
                                          namespaceId |-> <<>>, delegate |-> theDelegate]),
                 !._rendererCache = @ \cup {[delegate |-> theDelegate,
                                             renderer |-> Len(f.renderers) + 1]},
                 !.returned = [base |-> TRUE, delegate |-> theDelegate,
                               renderer |-> Len(f.renderers) + 1]]
    ELSE LET namespaceId == type.id \o <<"-">> \o toString(f._currentId)
         IN [f EXCEPT
                !._currentId = @ + 1,
                !.registered = Append(@, namespaceId),
                !.triggers = @ \o [i \in 1..Len(animationTriggers(type)) |->
                                      <<namespaceId, animationTriggers(type)[i]>>],
                !.renderers = Append(@, [kind |-> "AnimationRenderer",
                                         namespaceId |-> namespaceId,
                                         delegate |-> theDelegate]),
                !.returned = [base |-> FALSE, delegate |-> theDelegate,
                              renderer |-> Len(f.renderers) + 1]]

CreateRenderer ==
    /\ factory.calls < MaxRenderers
    /\ \E hostElement \in BOOLEAN, type \in RendererTypes, theDelegate \in Delegates :
         factory' = createRenderer([factory EXCEPT !.calls = @ + 1],
                                   hostElement, type, theDelegate)
    /\ UNCHANGED <<hostVars, mainVars, convVars, delegating, generator, emitPathCall,
                   patchCall, namerCall, flatModule, loaderCall,
                   renderer>>

InitCreateRenderer ==
    /\ HostInit
    /\ annotated = {}
    /\ MainIdle
    /\ ConvIdle
    /\ DelegatingIdle
    /\ GeneratorIdle
    /\ EmitPathIdle
    /\ PatchIdle
    /\ NamerIdle
    /\ FlatModuleIdle
    /\ LoaderIdle
    /\ FactoryIdle
    /\ RendererIdle

NextCreateRenderer == CreateRenderer

SpecCreateRenderer == InitCreateRenderer /\ [][NextCreateRenderer]_vars

\* the renderers of one class the factory constructed
renderersOf(kind) ==
    {i \in 1..Len(factory.renderers) : factory.renderers[i].kind = kind}

\* C34: for types without animation data the factory holds at most one
\* BaseAnimationRenderer per delegate renderer and returns that one whenever
\* the delegate factory returns that delegate; no AnimationRenderer is ever in
\* the cache.
C34_OneBaseRendererPerDelegate ==
    /\ \A i, j \in renderersOf("BaseAnimationRenderer") :
          factory.renderers[i].delegate = factory.renderers[j].delegate => i = j
    /\ factory.returned.base =>
          /\ factory.returned.renderer \in renderersOf("BaseAnimationRenderer")
          /\ factory.renderers[factory.returned.renderer].delegate
                = factory.returned.delegate
    /\ {e.renderer : e \in factory._rendererCache} = renderersOf("BaseAnimationRenderer")
    /\ \A e \in factory._rendererCache :
          factory.renderers[e.renderer].delegate = e.delegate

C34_Witness ==
    /\ factory.calls = 3
    /\ Len(factory.renderers) = 2
    /\ factory.renderers[1].kind = "BaseAnimationRenderer"
    /\ factory.renderers[2].kind = "AnimationRenderer"
    /\ factory.renderers[2].delegate = factory.renderers[1].delegate
    /\ factory.returned.base
    /\ factory.returned.renderer = 1

\* how often the engine's register was called with the namespace id
timesRegistered(namespaceId) ==
    Cardinality({k \in 1..Len(factory.registered) : factory.registered[k] = namespaceId})

\* C35: every AnimationRenderer of the factory has a namespace id no other
\* renderer of the factory has, also when renderers share a component type
\* id, and the engine's register was called once for each of these ids and
\* for no other.
C35_NamespaceIdsDistinct ==
    /\ \A i \in renderersOf("AnimationRenderer") :
          /\ \A j \in 1..Len(factory.renderers) :
                factory.renderers[i].namespaceId = factory.renderers[j].namespaceId => i = j
          /\ timesRegistered(factory.renderers[i].namespaceId) = 1
    /\ Len(factory.registered) = Cardinality(renderersOf("AnimationRenderer"))

C35_Witness ==
    /\ Len(factory.renderers) = 3
    /\ factory.renderers[1].namespaceId = <<"c", "-", "0">>
    /\ factory.renderers[2].namespaceId = <<"c", "-", "1">>
    /\ factory.renderers[3].namespaceId = <<"c", "-", "1", "-", "2">>


(***************************************************************************)
(* BaseAnimationRenderer's appendChild and removeChild, and the factory's  *)
(* engine.onRemovalComplete.  The engine holds what onRemove told it and   *)
(* signals each removal complete at a time of its choosing; a node that    *)
(* two renderers were asked to remove is signalled twice.                  *)
(***************************************************************************)
MaxDomCalls == 5

notRenderer ==
    <<hostVars, mainVars, convVars, delegating, generator, emitPathCall, patchCall,
      namerCall, flatModule, loaderCall, factory>>

rendererCall(r, op, element) ==
    [r EXCEPT !.calls = @ + 1,
              !.last = [NoRendererCall EXCEPT !.op = op, !.element = element]]

\* appendChild(parent, newChild): delegate.appendChild, then engine.onInsert
appendChild(r, newChild) ==
    [rendererCall(r, "appendChild", newChild) EXCEPT
        !.attached = @ \cup {newChild},
        !.inserts[newChild] = @ + 1,
        !.last.engine = <<[namespaceId |-> r.self.namespaceId, name |-> <<"onInsert">>]>>]

\* removeChild(parent, oldChild): engine.onRemove(namespaceId, oldChild, delegate)
removeChild(r, oldChild) ==
    [rendererCall(r, "removeChild", oldChild) EXCEPT
        !.pending = Append(@, oldChild),
        !.last.engine = <<[namespaceId |-> r.self.namespaceId, name |-> <<"onRemove">>]>>]

\* the call delegate.removeChild(element.parentNode, element)
delegate_removeChild(r, element) ==
    [r EXCEPT !.attached = @ \ {element},
              !.removes[element] = @ + 1,
              !.last.removed = Append(@, [element |-> element,
                                          hadParent |-> element \in r.attached])]

without(s, k) == SubSeq(s, 1, k - 1) \o SubSeq(s, k + 1, Len(s))

\* onRemovalComplete that does not ask the delegate for the parent
onRemovalComplete_unguarded(r, k) ==
    delegate_removeChild(
        [rendererCall(r, "onRemovalComplete", r.pending[k]) EXCEPT
            !.pending = without(@, k)],
        r.pending[k])

\* engine.onRemovalComplete(element, delegate) for the k-th removal the engine
\* holds: if (delegate && delegate.parentNode(element)) delegate.removeChild(..)
onRemovalComplete(r, k) ==
    LET element == r.pending[k]
        signalled == [rendererCall(r, "onRemovalComplete", element) EXCEPT
                         !.pending = without(@, k)]
    IN IF r.self.delegate # "none" /\ element \in r.attached
       THEN delegate_removeChild(signalled, element)
       ELSE signalled

AppendChild ==
    /\ renderer.calls < MaxDomCalls
    /\ \E newChild \in Elements : renderer' = appendChild(renderer, newChild)
    /\ UNCHANGED notRenderer

RemoveChild ==
    /\ renderer.calls < MaxDomCalls
    /\ \E oldChild \in Elements : renderer' = removeChild(renderer, oldChild)
    /\ UNCHANGED notRenderer

OnRemovalComplete ==
    /\ renderer.calls < MaxDomCalls
    /\ \E k \in 1..Len(renderer.pending) : renderer' = onRemovalComplete(renderer, k)
    /\ UNCHANGED notRenderer

\* the AnimationRenderer BrowserAnimationBuilder creates for the players
typeData == [defined |-> TRUE, id |-> <<"0">>, data |-> "animation"]

\* the renderers createRenderer returns from a new factory
Renderers ==
    {createRenderer(NewFactory, hostElement, type, "d1").renderers[1] :
        hostElement \in BOOLEAN, type \in RendererTypes \cup {typeData}}

InitRemoval ==
    /\ HostInit
    /\ annotated = {}
    /\ MainIdle
    /\ ConvIdle
    /\ DelegatingIdle
    /\ GeneratorIdle
    /\ EmitPathIdle
    /\ PatchIdle
    /\ NamerIdle
    /\ FlatModuleIdle
    /\ LoaderIdle
    /\ FactoryIdle
    /\ \E self \in Renderers : renderer = [NewRenderer EXCEPT !.self = self]

NextRemoval == AppendChild \/ RemoveChild \/ OnRemovalComplete

SpecRemoval == InitRemoval /\ [][NextRemoval]_vars

\* C36: removeChild on an animation renderer only tells the engine; the
\* delegate's removeChild is called only in engine.onRemovalComplete and only
\* for an element the delegate reports a parent for, so an element is removed
\* no more often than it was inserted, however often its removal is signalled.
C36_RemovedOnlyOnRemovalComplete ==
    /\ renderer.last.op = "removeChild" =>
          /\ renderer.last.removed = <<>>
          /\ renderer.last.engine
                = <<[namespaceId |-> renderer.self.namespaceId, name |-> <<"onRemove">>]>>
    /\ \A k \in 1..Len(renderer.last.removed) :
          /\ renderer.last.op = "onRemovalComplete"
          /\ renderer.last.removed[k].element = renderer.last.element
          /\ renderer.last.removed[k].hadParent
    /\ Len(renderer.last.removed) <= 1
    /\ \A e \in Elements : renderer.removes[e] <= renderer.inserts[e]

\* the removal of e1 was signalled a second time and the delegate left alone
C36_Witness ==
    /\ renderer.last.op = "onRemovalComplete"
    /\ renderer.last.element = "e1"
    /\ renderer.last.removed = <<>>
    /\ renderer.inserts["e1"] = 1
    /\ renderer.removes["e1"] = 1
    /\ renderer.calls = 5


(***************************************************************************)
(* AnimationRenderer.setProperty and the RendererAnimationPlayer.  A       *)
(* property name is a sequence of lexemes, "@" and ":" being one each.     *)
(* The engine's setProperty returns or throws, as the engine decides.      *)
(***************************************************************************)
MaxCommands == 3

PropertyNames ==
    {<<>>, <<"p">>, <<"p", "@">>, <<"@">>, <<"@", "t">>, <<"@", "@", "0", ":", "play">>}

PlayerIds == {<<"0">>, <<"1">>}

Commands ==
    {"init", "play", "pause", "restart", "finish", "destroy", "reset", "setPosition"}

\* BaseAnimationRenderer.setProperty: the delegate's setProperty
BaseAnimationRenderer_setProperty(r, name) ==
    [r EXCEPT !.last.delegate = Append(@, [name |-> name])]

\* setProperty that hands the engine the name as it came
AnimationRenderer_setProperty_unstripped(r, name, outcome) ==
    IF Len(name) > 0 /\ name[1] = "@"
    THEN [r EXCEPT !.last.engine = Append(@, [namespaceId |-> r.self.namespaceId,
                                              name |-> name,
                                              outcome |-> outcome])]
    ELSE BaseAnimationRenderer_setProperty(r, name)

\* AnimationRenderer.setProperty(el, name, value)
AnimationRenderer_setProperty(r, name, outcome) ==
    IF Len(name) > 0 /\ name[1] = "@"
    THEN [r EXCEPT !.last.engine = Append(@, [namespaceId |-> r.self.namespaceId,
                                              name |-> Tail(name),
                                              outcome |-> outcome])]
    ELSE BaseAnimationRenderer_setProperty(r, name)

\* issueAnimationCommand(renderer, element, id, command, args)
issueAnimationCommand(r, id, command, outcome) ==
    AnimationRenderer_setProperty(r, <<"@", "@">> \o id \o <<":", command>>, outcome)

\* this._command(command, ...args) of the player
_command(r, command, outcome) ==
    [issueAnimationCommand(r, r.player.id, command, outcome) EXCEPT
        !.player.log = Append(@, [command |-> command, outcome |-> outcome])]

\* a player whose reset() forgets that it started
playerCall_resetForgets(r, method, outcome) ==
    LET called == _command(rendererCall(r, method, "element"), method, outcome)
    IN IF method = "play" /\ outcome = "returns"
       THEN [called EXCEPT !.player._started = TRUE]
       ELSE IF method = "reset" /\ outcome = "returns"
            THEN [called EXCEPT !.player._started = FALSE]
            ELSE called

\* init(), play(), pause(), restart(), finish(), destroy(), reset() and
\* setPosition(p) of the player: play() sets _started once its command
\* returned, the others only issue their command
playerCall(r, method, outcome) ==
    LET called == _command(rendererCall(r, method, "element"), method, outcome)
    IN IF method = "play" /\ outcome = "returns"
       THEN [called EXCEPT !.player._started = TRUE]
       ELSE called

\* hasStarted()
hasStarted(r) == r.player._started

\* the renderer BrowserAnimationBuilder's constructor asks the factory for
builderRenderer == createRenderer(NewFactory, TRUE, typeData, "d1").renderers[1]

\* new RendererAnimationPlayer(id, element, options, renderer): _started is
\* false and the 'create' command is issued
RendererAnimationPlayer(r, id) ==
    _command([r EXCEPT !.player = [id |-> id, _started |-> FALSE, log |-> <<>>],
                       !.last = [NoRendererCall EXCEPT !.op = "create",
                                                       !.element = "element"]],
             "create", "returns")

SetProperty ==
    /\ renderer.calls < MaxCommands
    /\ \E name \in PropertyNames, outcome \in {"returns", "throws"} :
         LET called == [rendererCall(renderer, "setProperty", "element") EXCEPT
                           !.last.name = name]
         IN renderer' = IF renderer.self.kind = "AnimationRenderer"
                        THEN AnimationRenderer_setProperty(called, name, outcome)
                        ELSE BaseAnimationRenderer_setProperty(called, name)
    /\ UNCHANGED notRenderer

PlayerCall ==
    /\ renderer.calls < MaxCommands
    /\ renderer.self = builderRenderer
    /\ \E method \in Commands, outcome \in {"returns", "throws"} :
         renderer' = playerCall(renderer, method, outcome)
    /\ UNCHANGED notRenderer

\* a renderer of either class; on the builder's renderer, a player as its
\* constructor left it
InitPlayer ==
    /\ HostInit
    /\ annotated = {}
    /\ MainIdle
    /\ ConvIdle
    /\ DelegatingIdle
    /\ GeneratorIdle
    /\ EmitPathIdle
    /\ PatchIdle
    /\ NamerIdle
    /\ FlatModuleIdle
    /\ LoaderIdle
    /\ FactoryIdle
    /\ \E self \in Renderers, id \in PlayerIds :
         renderer = IF self = builderRenderer
                    THEN RendererAnimationPlayer([NewRenderer EXCEPT !.self = self], id)
                    ELSE [NewRenderer EXCEPT !.self = self]

NextPlayer == SetProperty \/ PlayerCall

SpecPlayer == InitPlayer /\ [][NextPlayer]_vars

\* C37: AnimationRenderer.setProperty with a name that starts with '@' calls
\* the engine alone, with the renderer's namespace id and the name less its
\* first '@'; with any other name it calls the delegate alone, with the name
\* as it is.  Every command of a player reaches the engine as '@<id>:<command>'
\* and never the delegate.
C37_SetPropertyRoutesToOneTarget ==
    /\ renderer.last.op = "setProperty" /\ renderer.self.kind = "AnimationRenderer" =>
          IF Len(renderer.last.name) > 0 /\ renderer.last.name[1] = "@"
          THEN /\ Len(renderer.last.engine) = 1
               /\ renderer.last.engine[1].namespaceId = renderer.self.namespaceId
               /\ <<"@">> \o renderer.last.engine[1].name = renderer.last.name
               /\ renderer.last.delegate = <<>>
          ELSE /\ renderer.last.engine = <<>>
               /\ renderer.last.delegate = <<[name |-> renderer.last.name]>>
    /\ renderer.last.op \in Commands \cup {"create"} =>
          /\ Len(renderer.last.engine) = 1
          /\ renderer.last.engine[1].namespaceId = renderer.self.namespaceId
          /\ renderer.last.engine[1].name
                = <<"@">> \o renderer.player.id \o <<":", renderer.last.op>>
          /\ renderer.last.delegate = <<>>

C37_Witness ==
    /\ renderer.last.op = "setPosition"
    /\ renderer.last.engine
          = <<[namespaceId |-> <<"0", "-", "0">>,
               name |-> <<"@", "1", ":", "setPosition">>, outcome |-> "returns"]>>
    /\ renderer.calls = 3

\* the calls of the player that returned
returnedCalls ==
    {renderer.player.log[k].command :
        k \in {j \in 1..Len(renderer.player.log) :
                  renderer.player.log[j].outcome = "returns"}}

\* C38: hasStarted() is false from the construction of the player until a
\* play() returned and true for ever after, whatever init, pause, restart,
\* finish, destroy, reset or setPosition calls are made before or after.
C38_StartedIffPlayed ==
    hasStarted(renderer) <=> "play" \in returnedCalls

C38_Witness ==
    /\ Len(renderer.player.log) = 4
    /\ renderer.player.log[2] = [command |-> "play", outcome |-> "returns"]
    /\ renderer.player.log[3] = [command |-> "reset", outcome |-> "returns"]
    /\ renderer.player.log[4] = [command |-> "destroy", outcome |-> "returns"]
    /\ hasStarted(renderer)


\* C39: main never throws: whatever is raised while the configuration is
\* read, the flat module index is built, the first Program is created or its
\* option diagnostics are checked comes back as a rejected promise, and what
\* is raised in the continuation after codegen rejects the promise returned.
C39_EveryFailureRejectsThePromise ==
    /\ pc # "thrown"
    /\ locals.failedAt # "none" => pc = "rejected" /\ promise = "rejected"
    /\ pc = "rejected" => locals.failedAt # "none"

C39_Witness ==
    /\ locals.failedAt = "createProgram"
    /\ promise = "rejected"
    /\ steps = <<>>


(***************************************************************************)
(* fileNameToModuleId of the tsickleHost main() builds.  Paths are         *)
(* sequences of characters.                                                *)
(***************************************************************************)
MaxPathLen == 7

PathChars == {"/", "a", "b", "c", "x"}

\* the absolute paths of up to maxLen characters
AbsolutePaths(maxLen) ==
    UNION {{<<"/">> \o rest : rest \in [1..n -> PathChars]} : n \in 0..(maxLen - 1)}

A_B == <<"/", "a", "b">>

\* cliOptions.moduleIdBasePath, the empty string when the option is not given
CliBasePaths == {<<>>, A_B, <<"/", "c">>}

\* path.resolve(process.cwd(), cliOptions.basePath || projectDir)
BasePaths == {A_B, <<"/", "a">>}

\* const moduleIdBasePath = cliOptions.moduleIdBasePath || basePath
moduleIdBasePath(cliBasePath, basePath) ==
    IF cliBasePath # <<>> THEN cliBasePath ELSE basePath

\* fileName.substr(start)
substr(fileName, start) == SubSeq(fileName, start + 1, Len(fileName))

\* fileNameToModuleId(fileName) of the tsickleHost
fileNameToModuleId(base, fileName) ==
    IF startsWith(fileName, base)
    THEN substr(fileName, Len(base) + 1)
    ELSE fileName

FileNameToModuleId ==
    /\ ~namerCall.called
    /\ \E cliBasePath \in CliBasePaths, basePath \in BasePaths, fileName \in AbsolutePaths(MaxPathLen) :
         LET base == moduleIdBasePath(cliBasePath, basePath)
         IN namerCall' = [namerCall EXCEPT
                             !.called = TRUE,
                             !.host = "tsickleHost",
                             !.context = base,
                             !.importPath = fileName,
                             !.result = fileNameToModuleId(base, fileName)]
    /\ UNCHANGED <<hostVars, mainVars, convVars, delegating, generator, emitPathCall,
                   patchCall, flatModule, loaderCall, factory, renderer>>

InitModuleId ==
    /\ HostInit
    /\ annotated = {}
    /\ MainIdle
    /\ ConvIdle
    /\ RestIdle

NextModuleId == FileNameToModuleId

SpecModuleId == InitModuleId /\ [][NextModuleId]_vars

\* the file is the directory itself or lies under it
inside(directory, fileName) ==
    \/ fileName = directory
    \/ startsWith(fileName, directory \o <<"/">>)

\* C40: fileNameToModuleId returns the path of the file relative to
\* moduleIdBasePath exactly when the file lies inside that directory and the
\* file name unchanged otherwise, in particular for a file that shares
\* moduleIdBasePath only as a prefix of its string (base /a/b, file /a/bc/x).
C40_RelativeExactlyWhenInside ==
    namerCall.called =>
        namerCall.result
           = IF inside(namerCall.context, namerCall.importPath)
             THEN substr(namerCall.importPath, Len(namerCall.context) + 1)
             ELSE namerCall.importPath

=============================================================================
